-------------------------------- MODULE WifiSta --------------------------------
(***************************************************************************)
(* The Wi-Fi station of cmds/cmd_wifi.c: the connectivity bits, the retry  *)
(* timer with its growing delay, the event handler, and the blocking calls *)
(* wifi_join and wifi_disconnect, made by several tasks.                   *)
(*                                                                         *)
(* Three kinds of actor interleave:                                        *)
(*   - the event loop task, which runs event_handler on one event at a     *)
(*     time, in the order the events were posted;                          *)
(*   - the esp_timer task, which runs wifi_retry_cb;                       *)
(*   - the tasks that call wifi_join / wifi_disconnect / wifi_scan.        *)
(* Below them is the ESP-IDF Wi-Fi driver and TCP/IP stack (external): it  *)
(* posts events, and its calls fail as the code that uses them expects.    *)
(* Time is abstracted: a timeout may strike whenever the wait is not over. *)
(***************************************************************************)
EXTENDS Naturals, Sequences

CONSTANTS Tasks,        \* tasks that issue Wi-Fi commands
          Networks,     \* access points a join can name
          NoNet,        \* "no network": the target of a disconnect command
          RetryInit,    \* initial retry_delay_ms, in seconds
          RetryLostIp,  \* the delay IP_EVENT_STA_LOST_IP sets
          RetryMax,     \* MAX_RETRY_DELAY_MS
          MaxEvents,    \* bound: events waiting in the default event loop
          DriverErrors, \* may driver calls fail whatever the station's state?
          LateGotIp     \* may GOT_IP be posted behind its link's DISCONNECTED?

ASSUME WifiConstants ==
  /\ NoNet \notin Networks
  /\ RetryInit \in Nat /\ RetryLostIp \in Nat /\ RetryMax \in Nat
  /\ RetryInit <= RetryMax /\ RetryLostIp <= RetryMax
  /\ MaxEvents \in Nat
  /\ DriverErrors \in BOOLEAN
  /\ LateGotIp \in BOOLEAN

VARIABLES
  initialized,         \* cmd_wifi.c: initialized
  bits,                \* comm_event_group, as the set of bits that are set
  retry_delay,         \* retry_delay_ms
  disconnect_request,  \* a disconnect was asked for: do not retry
  timerArmed,          \* wifi_retry_timer is armed
  cbPending,           \* it has expired, wifi_retry_cb has not run yet
  evq,                 \* the default event loop's queue
  handler,             \* "retry": event_handler is between its two halves
  link,                \* driver: "down", "connecting" or "up"
  ap,                  \* driver: the network of the link
  config,              \* driver: the network esp_wifi_set_config stored
  dhcp,                \* TCP/IP stack: "off", "running" or "bound"
  ipLostTimer,         \* TCP/IP stack: an address is about to be given up
  pc, target, res      \* per task: where it is, what it asked for, last result

vars == <<initialized, bits, retry_delay, disconnect_request, timerArmed,
          cbPending, evq, handler, link, ap, config, dhcp, ipLostTimer,
          pc, target, res>>

timer   == <<timerArmed, cbPending>>
retry   == <<retry_delay, disconnect_request>>
driver  == <<link, ap, config>>
ipstack == <<dhcp, ipLostTimer>>
task    == <<pc, target, res>>

Bits == {"wifi", "ip", "completed"}
LinkEvents == {"sta_connected", "sta_disconnected"}
Events == LinkEvents \cup {"got_ip", "lost_ip"}
Sites == {"idle", "check", "disc", "leave", "request", "drop", "dwait", "gate",
          "cfg", "conn", "ipwait"}
Results == {"none", "ok", "timeout", "notready", "badcfg", "badconn",
            "disc_ok", "disc_fail"}

Init ==
  /\ initialized = FALSE
  /\ bits = {}
  /\ retry_delay = RetryInit
  /\ disconnect_request = FALSE
  /\ timerArmed = FALSE /\ cbPending = FALSE
  /\ evq = <<>> /\ handler = "idle"
  /\ link = "down" /\ ap = NoNet /\ config = NoNet
  /\ dhcp = "off" /\ ipLostTimer = FALSE
  /\ pc = [t \in Tasks |-> "idle"]
  /\ target = [t \in Tasks |-> NoNet]
  /\ res = [t \in Tasks |-> "none"]

\* The driver and the TCP/IP stack post to the default event loop.
CanPost == Len(evq) < MaxEvents
Post(e) == CanPost /\ evq' = Append(evq, e)

-------------------------------------------------------------------------------
(* The driver and the TCP/IP stack: external.                              *)

\* An attempt succeeds.
LinkUp ==
  /\ link = "connecting" /\ link' = "up"
  /\ Post("sta_connected")
  /\ UNCHANGED <<initialized, bits, retry, timer, handler, ap, config, ipstack,
                 task>>

\* An attempt fails, or an established link is lost.
LinkDown ==
  /\ link # "down" /\ link' = "down"
  /\ Post("sta_disconnected")
  /\ UNCHANGED <<initialized, bits, retry, timer, handler, ap, config, ipstack,
                 task>>

\* DHCP completes; the lwIP task posts GOT_IP by itself, so with LateGotIp it
\* may do so when the link is down already but its DISCONNECTED event is still
\* in the queue.
GotAddress ==
  /\ dhcp = "running" /\ (~LateGotIp => link = "up")
  /\ dhcp' = "bound" /\ ipLostTimer' = FALSE
  /\ Post("got_ip")
  /\ UNCHANGED <<initialized, bits, retry, timer, handler, driver, task>>

\* The lease is lost while the link is up.
LeaseLost ==
  /\ dhcp = "bound" /\ dhcp' = "running" /\ ipLostTimer' = TRUE
  /\ UNCHANGED <<initialized, bits, retry, timer, evq, handler, driver, task>>

\* No new address within the lost-IP interval.
AddressGivenUp ==
  /\ ipLostTimer /\ ipLostTimer' = FALSE
  /\ Post("lost_ip")
  /\ UNCHANGED <<initialized, bits, retry, timer, handler, driver, dhcp, task>>

Environment == LinkUp \/ LinkDown \/ GotAddress \/ LeaseLost \/ AddressGivenUp

\* esp_wifi_connect: refused unless the station is down.
ConnectStarts ==
  /\ link = "down" /\ link' = "connecting" /\ ap' = config
  /\ UNCHANGED config
ConnectRefused ==
  /\ link # "down" \/ DriverErrors
  /\ UNCHANGED driver

\* esp_wifi_disconnect: an event follows only if there was something to end.
Disconnect ==
  /\ link' = "down"
  /\ IF link = "down" THEN UNCHANGED evq ELSE Post("sta_disconnected")
  /\ UNCHANGED <<ap, config>>

\* esp_wifi_set_config: refused while the station is connecting.
ConfigStored(n) == link # "connecting" /\ config' = n
ConfigRefused == link = "connecting" \/ DriverErrors

-------------------------------------------------------------------------------
(* event_handler, run by the event loop task on the oldest event.  The     *)
(* default handlers of esp_netif, which start and stop DHCP, run for the   *)
(* same event.                                                             *)

Take(e) ==
  /\ handler = "idle" /\ evq # <<>> /\ Head(evq) = e
  /\ evq' = Tail(evq)

\* Mutant: the wrong mask advertises an address with the association.
StaConnected_SetsIp ==
  /\ Take("sta_connected")
  /\ bits' = bits \cup {"wifi", "ip", "completed"}
  /\ dhcp' = "running"
  /\ UNCHANGED <<initialized, retry, timer, handler, driver, ipLostTimer, task>>

StaConnected ==
  /\ Take("sta_connected")
  /\ bits' = bits \cup {"wifi", "completed"}
  /\ dhcp' = "running"
  /\ UNCHANGED <<initialized, retry, timer, handler, driver, ipLostTimer, task>>

\* Mutants: one of the two connectivity bits is left behind.
StaDisconnected_Clears(cleared) ==
  /\ Take("sta_disconnected")
  /\ bits' = (bits \ cleared) \cup {"completed"}
  /\ handler' = "retry"
  /\ dhcp' = "off"
  /\ ipLostTimer' = (ipLostTimer \/ dhcp = "bound")
  /\ UNCHANGED <<initialized, retry, timer, driver, task>>

StaDisconnected_KeepsWifi == StaDisconnected_Clears({"ip"})

\* First half: the bits.  Setting WIFI_STATE_COMPLETED wakes a joining task,
\* which may run before the second half.
StaDisconnected ==
  /\ Take("sta_disconnected")
  /\ bits' = (bits \ {"wifi", "ip"}) \cup {"completed"}
  /\ handler' = "retry"
  /\ dhcp' = "off"
  /\ ipLostTimer' = (ipLostTimer \/ dhcp = "bound")
  /\ UNCHANGED <<initialized, retry, timer, driver, task>>

\* retry_delay_ms after one more retry.
NextDelay(d) == IF d + 1 > RetryMax THEN RetryMax ELSE d + 1

\* Mutant: esp_timer_stop comes after esp_timer_start_once.
ScheduleRetry_StopsLast ==
  /\ handler = "retry" /\ handler' = "idle"
  /\ timerArmed' = FALSE
  /\ retry_delay' = IF disconnect_request THEN retry_delay
                                          ELSE NextDelay(retry_delay)
  /\ UNCHANGED <<initialized, bits, disconnect_request, cbPending, evq, driver,
                 ipstack, task>>

\* Second half: stop the timer, and start it unless a disconnect was asked
\* for.  esp_timer_stop does not call back a callback that is already due.
ScheduleRetry ==
  /\ handler = "retry" /\ handler' = "idle"
  /\ timerArmed' = ~disconnect_request
  /\ retry_delay' = IF disconnect_request THEN retry_delay
                                          ELSE NextDelay(retry_delay)
  /\ UNCHANGED <<initialized, bits, disconnect_request, cbPending, evq, driver,
                 ipstack, task>>

StaGotIp ==
  /\ Take("got_ip")
  /\ bits' = bits \cup {"ip"}
  /\ UNCHANGED <<initialized, retry, timer, handler, driver, ipstack, task>>

StaLostIp ==
  /\ Take("lost_ip")
  /\ bits' = bits \ {"ip"}
  /\ retry_delay' = RetryLostIp
  /\ UNCHANGED <<initialized, disconnect_request, timer, handler, driver,
                 ipstack, task>>

EventHandler ==
  StaConnected \/ StaDisconnected \/ ScheduleRetry \/ StaGotIp \/ StaLostIp

-------------------------------------------------------------------------------
(* The esp_timer task.                                                     *)

TimerExpires ==
  /\ timerArmed /\ timerArmed' = FALSE /\ cbPending' = TRUE
  /\ UNCHANGED <<initialized, bits, retry, evq, handler, driver, ipstack, task>>

\* wifi_retry_cb: the result of esp_wifi_connect is not looked at.
RetryCb ==
  /\ cbPending /\ cbPending' = FALSE
  /\ ConnectStarts \/ ConnectRefused
  /\ UNCHANGED <<initialized, bits, retry, timerArmed, evq, handler, ipstack,
                 task>>

-------------------------------------------------------------------------------
(* The calling tasks.                                                      *)

Goto(t, site) == pc' = [pc EXCEPT ![t] = site]
Return(t, r) == Goto(t, "idle") /\ res' = [res EXCEPT ![t] = r]

\* initialise_wifi brings the driver up once and sets WIFI_STATE_COMPLETED.
Initialise ==
  /\ initialized' = TRUE
  /\ bits' = IF initialized THEN bits ELSE bits \cup {"completed"}

\* wifi_join, up to esp_timer_stop.
JoinBegin(t, n) ==
  /\ pc[t] = "idle" /\ Goto(t, "check")
  /\ target' = [target EXCEPT ![t] = n]
  /\ Initialise
  /\ timerArmed' = FALSE
  /\ UNCHANGED <<retry, cbPending, evq, handler, driver, ipstack, res>>

JoinCheck(t) ==
  /\ pc[t] = "check"
  /\ Goto(t, IF "wifi" \in bits THEN "disc" ELSE "gate")
  /\ UNCHANGED <<initialized, bits, retry, timer, evq, handler, driver, ipstack,
                 target, res>>

\* The console's "wifi disconnect"; without a driver it only reports so.
DisconnectBegin(t) ==
  /\ pc[t] = "idle" /\ initialized /\ Goto(t, "disc")
  /\ target' = [target EXCEPT ![t] = NoNet]
  /\ UNCHANGED <<initialized, bits, retry, timer, evq, handler, driver, ipstack,
                 res>>

\* wifi_disconnect returns: wifi_join goes on whatever the result is.
DisconnectReturns(t, r) ==
  IF target[t] = NoNet THEN Return(t, r) ELSE Goto(t, "gate") /\ UNCHANGED res

DiscCheck(t) ==
  /\ pc[t] = "disc"
  /\ IF "wifi" \in bits THEN Goto(t, "leave") /\ UNCHANGED res
                        ELSE DisconnectReturns(t, "disc_ok")
  /\ UNCHANGED <<initialized, bits, retry, timer, evq, handler, driver, ipstack,
                 target>>

DiscLeave(t) ==
  /\ pc[t] = "leave" /\ Goto(t, "request")
  /\ bits' = bits \ {"completed"}
  /\ UNCHANGED <<initialized, retry, timer, evq, handler, driver, ipstack,
                 target, res>>

DiscRequest(t) ==
  /\ pc[t] = "request" /\ Goto(t, "drop")
  /\ disconnect_request' = TRUE
  /\ UNCHANGED <<initialized, bits, retry_delay, timer, evq, handler, driver,
                 ipstack, target, res>>

DiscDrop(t) ==
  /\ pc[t] = "drop" /\ Goto(t, "dwait")
  /\ Disconnect
  /\ UNCHANGED <<initialized, bits, retry, timer, handler, ipstack, target, res>>

\* The wait ends with the bit or with the timeout; WIFI_CONNECTED_BIT decides.
DiscWait(t) ==
  /\ pc[t] = "dwait"
  /\ DisconnectReturns(t, IF "wifi" \in bits THEN "disc_fail" ELSE "disc_ok")
  /\ UNCHANGED <<initialized, bits, retry, timer, evq, handler, driver, ipstack,
                 target>>

\* WIFI_STATE_COMPLETED within a second, or "not ready to connect in 1 sec".
JoinGate(t) ==
  /\ pc[t] = "gate"
  /\ IF "completed" \in bits THEN Goto(t, "cfg") /\ UNCHANGED res
                             ELSE Return(t, "notready")
  /\ UNCHANGED <<initialized, bits, retry, timer, evq, handler, driver, ipstack,
                 target>>

\* Mutant: esp_wifi_set_config is given what was stored before.
JoinConfig_Stale(t) ==
  /\ pc[t] = "cfg"
  /\ \/ /\ link # "connecting" /\ Goto(t, "conn")
        /\ config' = IF config = NoNet THEN target[t] ELSE config
        /\ bits' = bits \ {"completed"}
        /\ UNCHANGED res
     \/ /\ ConfigRefused /\ Return(t, "badcfg")
        /\ bits' = bits \cup {"completed"}
        /\ UNCHANGED config
  /\ UNCHANGED <<initialized, retry, timer, evq, handler, link, ap, ipstack,
                 target>>

JoinConfig(t) ==
  /\ pc[t] = "cfg"
  /\ \/ /\ ConfigStored(target[t]) /\ Goto(t, "conn")
        /\ bits' = bits \ {"completed"}
        /\ UNCHANGED res
     \/ /\ ConfigRefused /\ Return(t, "badcfg")
        /\ bits' = bits \cup {"completed"}
        /\ UNCHANGED config
  /\ UNCHANGED <<initialized, retry, timer, evq, handler, link, ap, ipstack,
                 target>>

\* Mutant: an earlier disconnect request is not withdrawn.
JoinConnect_KeepsRequest(t) ==
  /\ pc[t] = "conn"
  /\ UNCHANGED disconnect_request
  /\ \/ ConnectStarts /\ Goto(t, "ipwait") /\ UNCHANGED <<bits, res>>
     \/ /\ ConnectRefused /\ Return(t, "badconn")
        /\ bits' = bits \cup {"completed"}
  /\ UNCHANGED <<initialized, retry_delay, timer, evq, handler, ipstack, target>>

JoinConnect(t) ==
  /\ pc[t] = "conn"
  /\ disconnect_request' = FALSE
  /\ \/ ConnectStarts /\ Goto(t, "ipwait") /\ UNCHANGED <<bits, res>>
     \/ /\ ConnectRefused /\ Return(t, "badconn")
        /\ bits' = bits \cup {"completed"}
  /\ UNCHANGED <<initialized, retry_delay, timer, evq, handler, ipstack, target>>

\* The wait for the address ends with the bit or with the caller's timeout.
JoinWaitIp(t) ==
  /\ pc[t] = "ipwait"
  /\ Return(t, IF "ip" \in bits THEN "ok" ELSE "timeout")
  /\ UNCHANGED <<initialized, bits, retry, timer, evq, handler, driver, ipstack,
                 target>>

\* wifi_scan: esp_wifi_scan_start is refused while connecting, ESP_ERROR_CHECK
\* aborts, and the device starts again from nothing.
ScanInitialise(t) ==
  /\ pc[t] = "idle" /\ ~initialized /\ Initialise
  /\ UNCHANGED <<retry, timer, evq, handler, driver, ipstack, task>>

ScanAborts(t) ==
  /\ pc[t] = "idle" /\ initialized /\ link = "connecting"
  /\ initialized' = FALSE
  /\ bits' = {}
  /\ retry_delay' = RetryInit
  /\ disconnect_request' = FALSE
  /\ timerArmed' = FALSE /\ cbPending' = FALSE
  /\ evq' = <<>> /\ handler' = "idle"
  /\ link' = "down" /\ ap' = NoNet /\ config' = NoNet
  /\ dhcp' = "off" /\ ipLostTimer' = FALSE
  /\ pc' = [u \in Tasks |-> "idle"]
  /\ target' = [u \in Tasks |-> NoNet]
  /\ res' = [u \in Tasks |-> "none"]

\* A call in progress: every wait has a timeout.
TaskStep(t) ==
  \/ JoinCheck(t) \/ DiscCheck(t) \/ DiscLeave(t) \/ DiscRequest(t)
  \/ DiscDrop(t) \/ DiscWait(t) \/ JoinGate(t) \/ JoinConfig(t) \/ JoinConnect(t) \/ JoinWaitIp(t)

Command(t) ==
  \/ \E n \in Networks : JoinBegin(t, n)
  \/ DisconnectBegin(t)
  \/ ScanInitialise(t) \/ ScanAborts(t)

Next ==
  \/ Environment
  \/ EventHandler
  \/ TimerExpires \/ RetryCb
  \/ \E t \in Tasks : TaskStep(t) \/ Command(t)

Spec == Init /\ [][Next]_vars

\* Tasks, timers and the event loop run; an attempt ends, and not always badly.
FairSpec ==
  /\ Spec
  /\ WF_vars(EventHandler) /\ WF_vars(TimerExpires) /\ WF_vars(RetryCb)
  /\ WF_vars(LinkUp \/ LinkDown) /\ SF_vars(LinkUp)
  /\ \A t \in Tasks : WF_vars(TaskStep(t))
-------------------------------------------------------------------------------
TypeOK ==
  /\ initialized \in BOOLEAN
  /\ bits \in SUBSET Bits
  /\ retry_delay \in 0..RetryMax
  /\ disconnect_request \in BOOLEAN
  /\ timerArmed \in BOOLEAN /\ cbPending \in BOOLEAN
  /\ evq \in Seq(Events) /\ Len(evq) <= MaxEvents
  /\ handler \in {"idle", "retry"}
  /\ link \in {"down", "connecting", "up"}
  /\ ap \in Networks \cup {NoNet} /\ config \in Networks \cup {NoNet}
  /\ dhcp \in {"off", "running", "bound"} /\ ipLostTimer \in BOOLEAN
  /\ pc \in [Tasks -> Sites]
  /\ target \in [Tasks -> Networks \cup {NoNet}]
  /\ res \in [Tasks -> Results]

\* The handler has seen everything the driver and the IP stack have posted.
Settled == evq = <<>> /\ handler = "idle"

\* The task's last call was a join whose esp_wifi_connect was accepted, or it
\* never made a call.
Content(t) == pc[t] = "idle" /\ res[t] \in {"none", "ok", "timeout"}

(* cmd_wifi.c 201-285: an address is never advertised without an            *)
(* association, so isConnected and the MQTT and log tasks, which look at    *)
(* the IP bit alone, never act on an address of a link that is known to be  *)
(* gone.                                                                    *)
IpImpliesWifi == "ip" \in bits => "wifi" \in bits

(* cmd_wifi.c 201-285: when every event has been handled, the Wi-Fi bit     *)
(* tells whether the driver's link is up, however attempts, failures, user  *)
(* disconnects and retries were interleaved.                                *)
BitsMatchLink == Settled => (("wifi" \in bits) = (link = "up"))

(* cmd_wifi.c 216-234, 473-505: a station that was joined and is down is    *)
(* not forgotten: the retry timer is running, or its callback is due.       *)
RetryCovered ==
  /\ \A t \in Tasks : Content(t)
  /\ Settled /\ link = "down" /\ config # NoNet
  => timerArmed \/ cbPending

(* cmd_wifi.c 78-82, 216-234: if access points can be reached again and     *)
(* again, a joined station that lost its link comes back by itself, unless  *)
(* somebody issues a command.                                               *)
Reconnects ==
  (link = "down" /\ config # NoNet /\ \A t \in Tasks : Content(t))
    ~> (link = "up" \/ \E t \in Tasks : ~Content(t) \/ ~initialized)

(* The bits, seen as one state of the network: NetState.tla.                *)
NetView == IF "ip" \in bits THEN "online"
           ELSE IF "wifi" \in bits THEN "associated" ELSE "offline"

Net == INSTANCE NetState WITH net <- NetView

(* cmd_wifi.c 201-285 implements what the other components assume: online   *)
(* only by way of associated, and an outage clears both bits at once.       *)
ImplementsNetState == Net!NetSpec

(* common_defines.h 166: WIFI_STATE_COMPLETED indicates that the Wi-Fi      *)
(* operation is completed; here: when nothing at all is going on, it is set.*)
CompletedWhenIdle ==
  /\ initialized /\ Settled /\ link # "connecting"
  /\ ~timerArmed /\ ~cbPending
  /\ \A t \in Tasks : pc[t] = "idle"
  => "completed" \in bits

(* cmd_wifi.h 99-112: a wifi_join that returns true is connected to the     *)
(* access point it was asked for, or the handler has yet to hear that the   *)
(* link is gone, although the call only waits for an address and an earlier *)
(* join, a retry or an old event may provide one.  (For tasks that take     *)
(* turns to issue commands; two at once can pass the WIFI_STATE_COMPLETED   *)
(* test before either clears the bit.)                                      *)
JoinTrueMeansTarget ==
  [][\A t \in Tasks : (pc[t] = "ipwait" /\ pc'[t] = "idle" /\ res'[t] = "ok")
                         => ap = target[t] /\ (Settled => link = "up")]_vars
===============================================================================
