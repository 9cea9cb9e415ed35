-------------------------------- MODULE RotEnc --------------------------------
(***************************************************************************)
(* The rotary encoder and its push button (utils/rot_enc.c).  Interrupts   *)
(* of the key and the knob, the alarm of the key timer and the inactivity  *)
(* timer put messages in cmd_q without waiting; the task rot_enc_cmd turns *)
(* them into messages to the user interface.  The user interface is taken  *)
(* to have room for what it is sent.  The press counter that goes with     *)
(* K_DOWN and the direction of the knob are left out: nothing here reads   *)
(* them.                                                                   *)
(***************************************************************************)
EXTENDS Naturals, Sequences

CONSTANTS QueueCap,  \* the length of cmd_q, 10
          MaxIdle    \* ROT_INACTIVITY_TIME: ticks without activity

ASSUME RotConstants == QueueCap \in Nat \ {0} /\ MaxIdle \in Nat

VARIABLES
  level,       \* the key itself
  isr,         \* an edge of the key is waiting for its interrupt
  q,           \* cmd_q
  key_state,   \* the state of the key the task knows
  press_time,  \* what the next alarm means
  timer,       \* key_timer: "stopped", "armed", or "fired": counting on
  told,        \* the last key message to the user interface
  idle,        \* rot_inactivity_time, no further than MaxIdle + 1
  tick,        \* the value inactivity_timer_callback is adding up, or 0
  counted,     \* it is written back, but not yet compared
  active,      \* esp_timer_is_active(inactivity_timer)
  awake,       \* back light on, and no inactivity reported since
  away,        \* history: the user has gone for good
  stale,       \* history: messages that a handled release found in the queue
  lost         \* history: "key" and "timer" messages that found it full

keyVars == <<key_state, press_time, timer, told, stale>>
idleVars == <<idle, tick, counted, active, awake>>
vars == <<level, isr, q, keyVars, idleVars, away, lost>>

Positions == {"pressed", "released"}
Messages == Positions \cup {"rot", "timer", "inactive"}
Presses == {"short", "long", "longlong"}

\* init_rotenc and the start of rot_enc_cmd.
Init ==
  /\ level \in Positions /\ isr = FALSE /\ q = <<>>
  /\ key_state = level /\ press_time = "short" /\ timer = "stopped"
  /\ told = "up"
  /\ idle = 0 /\ tick = 0 /\ counted = FALSE /\ active = TRUE /\ awake = TRUE
  /\ away = FALSE /\ stale = 0 /\ lost = {}

Full == Len(q) = QueueCap
Send(m) == IF Full THEN UNCHANGED q ELSE q' = Append(q, m)

-------------------------------------------------------------------------------
(* The user, the interrupts and the timers.                                *)

Edge ==
  /\ ~away
  /\ level' \in Positions \ {level} /\ isr' = TRUE
  /\ UNCHANGED <<q, keyVars, idleVars, away, lost>>

\* Mutant: the message says what the edge should have been.
KeyIsr_Toggle ==
  /\ isr /\ isr' = FALSE
  /\ Send(IF key_state = "pressed" THEN "released" ELSE "pressed")
  /\ lost' = IF Full THEN lost \cup {"key"} ELSE lost \ {"key"}
  /\ UNCHANGED <<level, keyVars, idleVars, away>>

\* The level is read when the interrupt runs, not when the edge came.
KeyIsr ==
  /\ isr /\ isr' = FALSE
  /\ Send(level)
  /\ lost' = IF Full THEN lost \cup {"key"} ELSE lost \ {"key"}
  /\ UNCHANGED <<level, keyVars, idleVars, away>>

KnobIsr ==
  /\ ~away /\ Send("rot")
  /\ UNCHANGED <<level, isr, keyVars, idleVars, away, lost>>

\* The alarm does not reload; the timer counts on.
Alarm ==
  /\ timer = "armed" /\ timer' = "fired"
  /\ Send("timer")
  /\ lost' = IF Full THEN lost \cup {"timer"} ELSE lost
  /\ UNCHANGED <<level, isr, key_state, press_time, told, stale, idleVars, away>>

\* rot_inactivity_time++ is a read and a write, with no lock.
TickRead ==
  /\ active /\ tick = 0
  /\ tick' = IF idle > MaxIdle THEN idle ELSE idle + 1
  /\ UNCHANGED <<level, isr, q, keyVars, idle, counted, active, awake, away, lost>>

TickWrite ==
  /\ tick # 0 /\ ~counted /\ counted' = TRUE /\ idle' = tick
  /\ UNCHANGED <<level, isr, q, keyVars, tick, active, awake, away, lost>>

\* The comparison may read the variable again, or use the value just written.
TickCompare ==
  /\ counted /\ counted' = FALSE /\ tick' = 0
  /\ \E seen \in {tick, idle} :
       IF seen > MaxIdle THEN Send("inactive") ELSE UNCHANGED q
  /\ UNCHANGED <<level, isr, keyVars, idle, active, awake, away, lost>>

UserGoes == ~away /\ away' = TRUE /\ UNCHANGED <<level, isr, q, keyVars, idleVars, lost>>

-------------------------------------------------------------------------------
(* rot_enc_cmd, one message at a time.                                     *)

Take(m) ==
  /\ q # <<>> /\ Head(q) = m /\ q' = Tail(q)
  /\ UNCHANGED <<level, isr, away>>

OneOlder == stale' = IF stale = 0 THEN 0 ELSE stale - 1

\* Mutant: the inactivity timer is not started again.
Activity_NoRestart == idle' = 0 /\ awake' = TRUE /\ UNCHANGED <<tick, counted, active>>

Activity == idle' = 0 /\ active' = TRUE /\ awake' = TRUE /\ UNCHANGED <<tick, counted>>

TakeRot ==
  /\ Take("rot") /\ Activity /\ OneOlder
  /\ UNCHANGED <<key_state, press_time, timer, told, lost>>

TakeRelease ==
  /\ Take("released") /\ Activity /\ UNCHANGED <<press_time, lost>>
  /\ IF key_state = "pressed"
       THEN /\ key_state' = "released" /\ timer' = "stopped" /\ told' = "up"
            /\ stale' = Len(q) - 1
       ELSE OneOlder /\ UNCHANGED <<key_state, timer, told>>

\* Mutant: the next press goes on where the last one ended.
TakePress_KeepsTime ==
  /\ Take("pressed") /\ Activity /\ OneOlder
  /\ IF key_state = "released"
       THEN /\ key_state' = "pressed" /\ timer' = "armed" /\ told' = "down"
            /\ lost' = lost \ {"timer"} /\ UNCHANGED press_time
       ELSE UNCHANGED <<key_state, press_time, timer, told, lost>>

TakePress ==
  /\ Take("pressed") /\ Activity /\ OneOlder
  /\ IF key_state = "released"
       THEN /\ key_state' = "pressed" /\ timer' = "armed" /\ told' = "down"
            /\ press_time' = "short" /\ lost' = lost \ {"timer"}
       ELSE UNCHANGED <<key_state, press_time, timer, told, lost>>

NextPress(p) == IF p = "short" THEN "long" ELSE "longlong"

\* Mutant: the timer is left alone after a short press.
TakeTimer_NoRearm ==
  /\ Take("timer") /\ OneOlder /\ UNCHANGED <<key_state, idleVars, lost, timer>>
  /\ IF key_state = "released" THEN UNCHANGED <<press_time, told>>
     ELSE told' = press_time /\ press_time' = NextPress(press_time)

\* A press counts only while the key is known to be down; a very long one
\* is the last, and leaves the timer as it is.
TakeTimer ==
  /\ Take("timer") /\ OneOlder /\ UNCHANGED <<key_state, idleVars, lost>>
  /\ IF key_state = "released" THEN UNCHANGED <<press_time, timer, told>>
     ELSE /\ told' = press_time
          /\ press_time' = NextPress(press_time)
          /\ timer' = IF press_time = "longlong" THEN timer ELSE "armed"

TakeInactive ==
  /\ Take("inactive") /\ OneOlder
  /\ awake' = FALSE /\ active' = FALSE
  /\ UNCHANGED <<key_state, press_time, timer, told, idle, tick, counted, lost>>

Task == TakeRot \/ TakeRelease \/ TakePress \/ TakeTimer \/ TakeInactive

Next == Edge \/ KeyIsr \/ KnobIsr \/ Alarm \/ TickRead \/ TickWrite
        \/ TickCompare \/ UserGoes \/ Task

Spec == Init /\ [][Next]_vars

(* Interrupts are served, the esp_timer task and rot_enc_cmd get to run.   *)
FairSpec ==
  /\ Spec /\ WF_vars(KeyIsr) /\ WF_vars(Task)
  /\ WF_vars(TickRead) /\ WF_vars(TickWrite) /\ WF_vars(TickCompare)

-------------------------------------------------------------------------------
(* Properties.                                                             *)

Queued(m) == \E i \in 1..Len(q) : q[i] = m

(* Every variable stays in its type; cmd_q never holds more than it was    *)
(* made for.                                                               *)
TypeOK ==
  /\ level \in Positions /\ isr \in BOOLEAN
  /\ q \in Seq(Messages) /\ Len(q) <= QueueCap
  /\ key_state \in Positions /\ press_time \in Presses
  /\ timer \in {"stopped", "armed", "fired"}
  /\ told \in {"up", "down"} \cup Presses
  /\ idle \in 0..MaxIdle + 1 /\ tick \in 0..MaxIdle + 1
  /\ counted \in BOOLEAN
  /\ active \in BOOLEAN /\ awake \in BOOLEAN /\ away \in BOOLEAN
  /\ stale \in 0..QueueCap /\ lost \in SUBSET {"key", "timer"}

(* The key the task knows is the real one as soon as the interrupt and the *)
(* queue are quiet, however edges merged or bounced, unless the last edge  *)
(* found the queue full (rot_enc_isr_handler reads the level itself).      *)
KeyFollowsLevel ==
  (~isr /\ ~Queued("pressed") /\ ~Queued("released") /\ "key" \notin lost)
    => key_state = level

(* A key held down gets to its next press: the timer is armed or its       *)
(* message is waiting, unless that message found the queue full.           *)
HeldKeyGoesOn ==
  (told \in {"down", "short", "long"} /\ "timer" \notin lost)
    => timer = "armed" \/ Queued("timer")

(* What the order of the reports rests on: the timer runs only for a key   *)
(* known to be down, an alarm means the press after the last one told, and *)
(* a key that was down at the start is never timed.                        *)
PressInv ==
  /\ timer # "stopped" => key_state = "pressed"
  /\ key_state = "released" => told = "up"
  /\ (key_state = "pressed" /\ told = "up") => timer = "stopped" /\ ~Queued("timer")
  /\ told = "down" => press_time = "short"
  /\ told = "short" => press_time = "long"
  /\ told \in {"long", "longlong"} => press_time = "longlong"

(* Behind KeyFollowsLevel: the last message of the key says where it is.   *)
KeyAt(i) == q[i] \in Positions /\ \A j \in i + 1..Len(q) : q[j] \notin Positions
LastKey(p) ==
  \/ \E i \in 1..Len(q) : KeyAt(i) /\ q[i] = p
  \/ (\A i \in 1..Len(q) : q[i] \notin Positions) /\ key_state = p
LastKeyIsLevel == (~isr /\ "key" \notin lost) => LastKey(level)

(* The user interface hears of one press in the order down, short, long,   *)
(* very long, up, whatever timer messages are still in the queue.          *)
Reports == INSTANCE KeyReports
ReportsInOrder == Reports!KeySpec

(* When the user goes away the inactivity is reported in the end: every    *)
(* activity that turned the back light on also left the timer running.     *)
InactivityReported == away ~> ~awake

(* rot_enc.c 237-238: "Any KEY_RELEASE invalidates all pending timer       *)
(* events": a timer message that was in the queue when a release was       *)
(* handled tells the user interface nothing.                               *)
ReleaseInvalidates ==
  [][(stale > 0 /\ q # <<>> /\ Head(q) = "timer" /\ q' = Tail(q)) => told' = told]_vars
===============================================================================
