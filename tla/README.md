# A TLA+ model of esp32_common

`esp32_common` is firmware code shared by several ESP32 projects: Wi-Fi, MQTT, OTA
updates, remote logging, a TCP link to a PC application, crash recovery, a console,
and drivers for an ADC, a rotary encoder, Bluetooth and a GPS receiver. It runs on
FreeRTOS and ESP-IDF: tasks, the esp_timer task, event loops, queues and event groups.
The repository has no tests; this directory holds models of its control logic, the
configurations that check them with TLC, and proofs checked by TLAPS.

Run everything from this directory: `tlc -config Wifi.cfg WifiSta`,
`tlapm WifiStaProofs.tla`. `PROJECT.json` lists the runs, the code each definition
translates (`map`), the mutants that show a property can fail, the hazards and the
theorems.

## 1. Inventory

| Component | Code | State it keeps | Operations | What makes it correct |
|---|---|---|---|---|
| Wi-Fi station | `cmds/cmd_wifi.c` | connectivity bits of `comm_event_group`, retry timer, `retry_delay_ms`, `disconnect_request` | `wifi_join`, `wifi_disconnect`, `wifi_scan`, `event_handler`, `wifi_retry_cb` | bits tell the truth; a lost link is retried; a join reports its own network |
| MQTT client | `tcp/mqtt_ctrl.c` | `mqtt_client_handle`, `MQTT_CONNECTED_BIT`, `connect_fail_count`, receive queue and task | `mqtt_start`, `mqtt_event_handler`, `publish_*`, `subscribe`, `mqtt_rx_task` | the bit tells the truth; a stuck broker leads to a restart; no use of a destroyed client |
| OTA update | `utils/ota.c`, `ota`/`boot` of `cmds/cmd_system.c` | HTTP client, update handle, byte count, partitions | `ota_task`, `boot_from` | success means a whole, verified image; handles released once; the running image is never touched; MQTT comes back |
| Remote log | `tcp/tcp_log.c`, `my_log_vprintf` | log queue, task handle, `tcp_log_enable`, `dev_conf.cs` | `tcp_log_init`, `tcp_log_message`, `tcp_log_task` | once enabled and reachable, messages flow; stopping stops |
| PC link, server side | `tcp/tcp_server.c` | session socket, send/receive queues | accept loop, COMMINIT/COMMACK handshake, send task, process task | handshake before commands; a session's messages stay in it |
| PC link, client side | `tcp/tcp_client.c` | socket, command and receive queues | connect loop, send task, `tcpclient` console command | same; no socket closed twice |
| Crash handling | `utils/crash_handler.c` | crash record in RTC memory, boot counter, boot timer | panic wrapper, stack hook, `checkLastCrash`, boot timer | crash loop ends in recovery mode; a good boot clears the counter |
| Configuration store | `utils/utils.c` 199-473, `nvsconf` of `cmds/cmd_system.c` | NVS keys, `dev_conf`, certificates | `get_nvs_conf`, `get_nvs_cert`, `nvs_conf` | what is written is what is read back; defaults when absent |
| LED flasher | `utils/utils.c` 475-602 | `led_st`, flash timer and period mask | `set_flash_led`, `flash_timer_callback` | each LED flashes at its own rate and stops when told |
| Rotary encoder and push button | `utils/rot_enc.c` | command queue, key state, key and inactivity timers | ISR, timer callbacks, `rot_enc_cmd` | a press is classified once, in order |
| Device monitor | `utils/dev_mon.c` | handler table, tick count, queue | `add_handler`, `remove_handler`, `mon_timer_callback`, `dev_mon_task` | each handler runs once per period |
| Console commands | `cmds/cmd_system.c`, `cmds/*.c` | argument tables | `do_system_cmd`, one function per command | dispatch |
| ADC of the chip | `adesp32/adc_op.c` | sample queue, GPTimer, calibration | sampling ISR, `get_ADC_data`, measurements | a measurement uses its own samples |
| AD7811 converter | `ad7811/ad7811.c`, `comm/spicom.c` | channel, sample buffers, timer, queue | start, timer ISR, acquisition | as above |
| I2C/SPI transport | `comm/*.c` | bus handles | init, read, write, queued transactions | error propagation |
| Bluetooth start and commands | `bluedroid/btcomm.c` | `btEnabled`, `btConnected`, queues, message tasks | `btcomm_init`, `process_message_task`, `bt` command | a restart begins from nothing; messages are processed in order |
| BLE GATT server | `bluedroid/ble_server.c` | profile table with handles, `adv_config_done`, connection | GAP/GATTS events, `start_adv`, notify task | the table matches the attributes; advertise again after a disconnect |
| BLE GATT client | `bluedroid/ble_client1p.c` | scan list, connection, service range | GAP/GATTC events, `start_scan`, `connect2ble_device` | a connection to a device with the service ends in its notifications |
| GPS receiver | `nmea/nmea_parser.c` | parser state, `gps_t`, UART event queue and ring, event loop | `gps_decode`, UART task | an update holds a complete, checksummed set of statements; positions come again after any fault |
| Clock | `tcp/ntp_sync.c` | SNTP client | start, sync callback | external |
| 1-Wire, filters, protocol generator, NimBLE | `owb/`, `filters/`, `ws_mqtt_proto/`, `nimble/` | - | - | not modelled: vendored drivers, numeric code, generated code |

Interactions: `event_handler` publishes the connectivity bits; `mqtt_ctrl.c`,
`tcp_log.c` and `tcp_client.c` poll them. `mqtt_rx_task` hands commands to the
application, which may call `do_system_cmd` and so start an OTA update on the receive
task. `ota_task` destroys the MQTT client and starts it again. `my_log_vprintf` feeds
every log line to the remote log, which sends it over TCP or by MQTT. `RESTART` and
the panic handlers lead through a reboot into `checkLastCrash`.

Hard behaviours: event handlers run on the event loop task, timer callbacks on the
esp_timer task, commands on the console task and on the MQTT receive task, and they
share plain globals without locks; waits end by timeout as well as by success; queues
are bounded and their send results often ignored; a reboot may come at any time.
`PROJECT.json` "hazards" lists them by line.

## 2. The models

Every component is one module whose variables keep the names of the globals they stand
for; the configurations instantiate the modules directly. Where a mutant of a
definition is needed it is defined just before it, named after it (`OtaEnd_KeepsHandle`
for `OtaEnd`), and used nowhere.

```
NetState <--- refined by --- WifiSta          cmds/cmd_wifi.c
   ^
   +-- MqttCtrl                                tcp/mqtt_ctrl.c
   |      ^
   |      +------ MqttOta ------> Ota          utils/ota.c, boot command
   |                               ^
   |                               +-- CrashBoot   utils/crash_handler.c
   +-- TcpLog <-- NetTasks --> MqttCtrl        tcp/tcp_log.c
RotEnc --- refines ---> KeyReports             utils/rot_enc.c
   ^
   +-- Board --> Adc, Ad7811, LedFlash, NvsConf   adc_op.c, ad7811.c, utils.c
                           ConfStore <--- refined by --- NvsConf
LinkNet <-- TcpServer, TcpClient <-- PcLink    tcp/tcp_server.c, tcp/tcp_client.c
Bluetooth <-- BleServer, BleClient <-- BtComm  bluedroid/
Nmea <-- Gps                                   nmea/nmea_parser.c
```

**WifiSta.** `bits` is `comm_event_group`; `evq` the default event loop's queue;
`handler` the point between the two halves of `event_handler` (it clears bits, then
decides about the retry). `wifi_join` is cut at every call and wait: `JoinBegin`,
`JoinCheck` (wait for `WIFI_STATE_COMPLETED`), `DiscCheck`, `DiscLeave`, `DiscRequest`,
`DiscDrop`, `DiscWait` (`wifi_disconnect` inside it), `JoinGate`, `JoinConfig`, `JoinConnect`, `JoinWaitIp`. The
retry timer is armed, expires (`TimerExpires`) and runs later (`RetryCb`), so that a stop
may come too late. The driver and lwIP are external: an attempt ends well or badly, a
link may go at any moment, events are handled in the order of posting. `LateGotIp` lets
lwIP post its address behind the DISCONNECTED event of the same link; `DriverErrors`
lets driver calls fail for no reason that the station's state gives.

**NetState** is the abstraction the other network components are written over: offline,
associated, online; an outage goes back to offline at once. `WifiSta` is shown to
implement it.

**MqttCtrl.** `mqttBit`, `handle`, `fail_count` and the receive queue of
`mqtt_ctrl.c`, with the events of esp-mqtt split into the moment the library changes state
(`Accepted`, `Lost`) and the handler that hears of it (`Connected`, `Disconnected`).
A publisher tests the handle and uses it later. `MqttStart` is the whole of `mqtt_start`.
Topics and payloads are counted (`heap`), not written out.

**Ota.** `ota_task` with one action per call that can fail; chunks stand for bytes;
the partition's content is the old image, an unfinished one, or a verified one.
`BootFrom` is the `boot` command, `OtaReset` a restart or loss of power at any point.

**MqttOta** joins the two: the steps of `ota_task` that look at, destroy, forget and
restart the client are steps of both modules.

**CrashBoot** joins `Ota` and the crash handler: a reset leads to `phase = "early"`, in
which only the check runs (`StartsApp`, `SwitchesToRecovery`, `ClearsCount`); in
`"restarting"` the check waits in its `RESTART`. `boot_count` is incremented
by the application, which is not in the repository (`CountsBoot`); every other write of
it is here. The memory after power on is arbitrary. `verdict` is a history variable.

**TcpLog.** The caller's side of `tcp_log_init` (stop: message, poll; start: queue, task,
enable), the task (create its queue, receive, resolve, connect, send, clean up step by step), and
the loggers, which test the queue and use it a step later. `queue = "deleted"` is the
window between `vQueueDelete` and the assignment of NULL. Log and MQTT client share nothing but
the network: **NetTasks** picks one of them in its initial states (`user`), so that one run
checks both.

**RotEnc.** Interrupts, alarm, inactivity timer and task around `cmd_q`.
`inactivity_timer_callback` is three steps, because it reads, writes and compares
`rot_inactivity_time`, which the task resets meanwhile (`TickRead`, `TickWrite`,
`TickCompare`; the variable is not volatile, so the comparison may read it again or use what
was written). `stale` and
`lost` are history. **KeyReports** is what the user interface is promised: for
one press: down, then short, long, very long in this order, and up.

**LinkNet, TcpServer, TcpClient, PcLink.** Connections with two ends and two bounded
streams that may break at any moment; the server's accept loop, its receive loop with
COMMINIT, COMMACK and COMMNACK, its two tasks; the client's connect loop, which a refused
`socket()` ends for good (`CNoSocket`), its tasks and its console command. `PcLink` adds a PC program that may say anything, connections
that break, and restarts of the server.

**Nmea, Gps.** `Nmea` is the parser as functions of its state: `gps_decode` item by item
(a start, a comma, an asterisk, a line end), `parse_item` with one operator for each statement,
`parsed_statement`, `sat_num` and the uint8_t index of the satellite table. A
value is the epoch it was sent in, whether it arrived undamaged, and how many
times its sign or second part was applied. An item has a length: what
`item_str[16]` has no room for is written to `parent` behind it (`Spill`, by the layout of
`esp_gps_t` with aligned 4-byte floats and enums), field by field, until a statement sets the
field again. The XOR of a checksum is ideal: a set to which
a text is added and from which it is removed, so that different lines have different ones.
`Gps` adds the
receiver's statements, damage (a lost, torn or joined piece), the ring, the
UART's event queue with its overflows and resets, the read of one line for one
pattern event, the event loop and its handler, and `tcp_send_queue`. What an update was
received from (`w`) is history.

**Bluetooth, BleServer, BleClient, BtComm.** `Bluetooth` is what both builds
share: the stack's task, which takes one GATT or GAP event at a time and blocks in
`xQueueSend` when `bt_receive_queue` is full. `BleServer`
builds the service from the stack's answers, a chain that a refused call ends
(`halted`, history), and counts pending advertising data;
`start_adv` is three steps, on a task of the program. `BleClient` has scan, connection, MTU,
discovery, search and subscription, with the stack's answers as events.
`BtComm` starts, stops and restarts the stack and chooses the build, `BT_ROLE`, initially.

**Adc, Ad7811, LedFlash, NvsConf, Board.** `Adc`: callers under
`adcval_mutex`, the alarm that writes through `adc_raw`; cells tell a raw sample from a
converted or an old one. `Ad7811`: the converter gives the channel selected by the transfer
before. `LedFlash`: each access to `led_st` is a step of the callback or of `set_flash_led`.
`NvsConf`: the store as seen and as committed, `get_nvs_conf` key by key at each
boot; three keys stand for thirteen (an ordinary one, the console state, which `nvsconf` applies
at once, and one it refuses). **ConfStore** is what its users are promised: in the store one
key changes at a time, as a whole, and a boot uses what the store holds. These components share no state: `Board` picks one of them or the
encoder in its initial states (`part`) and leaves the others alone, so that one run checks all.

## 3. The runs

| Run | What it shows | Bounds | Distinct states |
|---|---|---|---|
| `wifi` | `BitsMatchLink`: the bits tell the truth; `RetryCovered`, `Reconnects`: a lost link is retried and comes back; `JoinTrueMeansTarget`: a join that succeeds is on its network and, events handled, linked; `WifiSta` implements `NetState` | one commanding task, two networks, two queued events, two retry delays | 516,297 |
| `wifi_completed` | finding: `WIFI_STATE_COMPLETED` may stay clear with nothing going on | one network | - |
| `net_tasks` | log: `StoppedIsGone`, `TerminateWorks`; MQTT client: `BitMatchesClient`, `StuckBrokerReboots` | one caller, one logger, queue of 2, all failures on; one publisher, queue of 2, 2 failures to a reboot | 47,541 |
| `mqtt_dangling` | finding: a publisher at work on a destroyed client | the MQTT client as above | - |
| `mqtt_ota` | `NoRestartWhileFlashing`, `ClientsTakeTurns`, `MqttComesBack` | one chunk, 2 failures | 668,544 |
| `crash_boot` | `RunningIsIntact`, `OkMeansNewImage`, `HandlesReleased`, `OtaEnds`; `BadStaysOut`, `GoodStays` | two partitions (the tables have two), images of up to 3 chunks for a partition of 2, counter to 2 | 66,668 |
| `pc_link` | `OnePair`, `NoOldData`, `LinkComesBack` | two connections, one message in flight, queues of 1, two faults | 348,792 |
| `gps` | `CompleteUpdate`: an update has every kind of statement, undamaged; `CleanUpdate`: without damage it has only values received since the update before, but where the text of a TXT lies on them; `NewestPositionQueued`; `PositionsKeepComing` | GSV groups of 2 or 1 messages for up to 6 satellites, a table of 5, one fault, ring of 2 lines, 3 epochs, a TXT text of 26 characters, other items of 10 | 93,826 |
| `gps_long_text` | finding: the text of a TXT overwrites the altitude | as above | - |
| `ble` | `FlagFollowsLink`, `ServiceBuilt`, `MessagesInOrder`, `AdvertisesAgain`; `Subscribes` | queues of 1, two characteristics, two events, one refused call; two devices of which one has the service | 156,251 |
| `board` | encoder: `KeyFollowsLevel`, `HeldKeyGoesOn`, `InactivityReported`, refinement of `KeyReports` (`ReportsInOrder`); ADC: `SamplesAreOwn`, `NoLateSample`; AD7811: `ChannelRead`, `AdReturns`; LEDs: `FlashGoesOn`; store: refinement of `ConfStore` (`StoreIsKept`) | `cmd_q` of 2, one idle tick; two callers, two samples; three channels, three samples, two failures; two slots for two outputs; two refused writes | 192,510 |
| `rot_enc_stale` | finding: a timer message survives the release | `cmd_q` of 3 | - |

Why the bounds suffice. Two networks are the least that let a join end at the wrong
one; two queued events the least that let an old event come between a call and its
own, and two delays one below the maximum and one at it. A queue of 2 has an empty, a middle and a full
state (3 in `rot_enc_stale`, where the hazard needs a release, a press and an alarm
queued at once). `ota_task` tells apart an empty, a fitting and an oversized image and
a first chunk from a later one. The counter of boots is only compared with 0. In `pc_link`
the second connection is what a reconnecting client or the PC program needs while the
first is still being closed; two faults are a broken connection and a restart
or a rejected COMMINIT in the recovery from it. In `gps` a group of two messages is what
a group needs to be torn between them, six satellites are one more than the table
of five, and the ring holds a line that was read and one that waits. In `ble` two characteristics
let a handle go to the wrong one, and one failure of each kind lets the chain go on or
end; two would only end it twice. In `board` two callers and two samples let one call give up
before its last sample while the other waits; with two slots for two pins
and two rates the table is empty, half full and full.

Deadlock is checked except in `board` and `rot_enc_stale` (a user who has gone presses nothing)
and `pc_link` (both main tasks may have deleted themselves).

Type invariants are proved (section 4) where there are proofs, and then not run as well.

### Fairness

Weak fairness is asked only of what FreeRTOS and the libraries run: a ready task,
the event loop, an expired timer, a pending interrupt, and calls that return after their
timeout. Beyond that:

- `WifiSta`: attempts end, and an access point that is tried again and again answers at
  some point (`SF(LinkUp)`); that is the condition of `Reconnects`.
- `MqttOta`: `SF(DestroysClient)`: `esp_mqtt_client_destroy` waits for the client's own task,
  which may be in a handler; it gets its turn between two of them.
- `PcLink`: the two main tasks, and a PC program that leaves in the end. Nothing is asked of the
  process and send tasks, the applications or the console. `LinkComesBack`
  excepts the client that deleted itself (the console command's race with the main loop,
  a hazard), and the client and the server that ended for want of sockets (hazards).
- `RotEnc`: nothing is asked of the user or the key timer.
- `CrashBoot`: only `ota_task`'s calls; nothing makes the device crash or stay up.
- `Gps`: the receiver goes on sending, and the task takes its events.
- `BtComm`: strong for the two kinds of turns and for the stack's answers: the stack has one task and
  one queue for them, first in, first out, so neither kind can be passed over for ever
  although the task waits in between for room in `bt_receive_queue`.
- `Board`: the encoder's as above; the alarms and the console task of the AD7811; the callback of
  the LEDs' timer. Nothing is asked of the callers of the ADC or of the store.

### What the code does otherwise than it says

Four runs end in a violation of a sentence of the repository, quoted in `PROJECT.json`
"findings" with the course of events: `WIFI_STATE_COMPLETED` (common_defines.h 166),
the cleared MQTT handle (ota.c 101), timer events after a release (rot_enc.c 237-238), and the
current item of the GPS parser (nmea_parser.c 74): a text of more than 15 characters in a TXT
goes on into latitude, longitude and altitude. RMC sets the position again before it is published,
GGA comes too late for the altitude when the update is published with RMC.

The models contain more that the code's authors may want to look at, without a run:

- The terminate message of the log task goes through its message queue; when that stays
  full for 10 ticks it is dropped (tcp_log.c 78) and nothing later stops the task, although
  line 70 says "stop tcp_log task". `TerminateWorks` is about a message that got in.
- After a COMMNACK that was sent the server stays in its receive loop (tcp_server.c 241-244);
  the comment at 224-225 has it "break from receive loop".
- `start_adv` sets each flag of `adv_config_done` after the call whose answer clears it, on another
  task (ble_server.c 641-645): a flag set too late is never cleared, and the
  server does not advertise again, although line 480 leaves that to these flags.
  `AdvertisesAgain` excuses this order (`late`).
- A call that builds the GATT service and is refused is only logged (ble_server.c 290, 314, 349):
  the service stays incomplete and nothing tries again. `ServiceBuilt` says that the
  table is right as far as it goes.
- "bt start" in a connection clears `btConnected` and then fails (btcomm.c 274): `FlagFollowsLink`
  excuses it (`repeated`). "bt stop" deletes the queues and keeps their pointers (499-502).
- A client opens the entry of the scan list it found two calls earlier (ble_client1p.c 405-410),
  whatever the list holds by then.
- `set_flash_led` stores a state and reads it back for the pin (utils.c 561-562): the callback may
  have inverted it in between. And a tick is used as a bit mask itself, so two calls with
  different ticks that round to the same power of two flash alike.

Two observations of the crash handler have no run. A crash before `checkLastCrash` on the first
boot after power on writes the magic over a record that was never cleared, and
whatever memory holds as `boot_count` decides about recovery; `CrashBoot` contains this
behaviour, and for that reason no property says that recovery needs a counted
boot. And the record of a stack overflow is overwritten by the panic handler that
`esp_system_abort` leads to (crash_handler.c 91, 43-64).

## 4. The proofs

All theorems hold for every value of the constants that satisfies the named
assumptions of the modules. Each rests on an inductive invariant, checked by TLC before.

- `WifiStaProofs`: `TypeCorrect`; and, if lwIP posts no address behind the end of its
  link (`~LateGotIp`), `AddressNeedsLink`, `BitsFollowLink` and
  `BitsImplementNetState`. The invariant says what the events still queued will do to the
  bits: the last link event in the queue, or else the bit, is the state of the link. With
  `LateGotIp` TLC finds the address bit set without the link bit: the hypothesis is needed.
  `RetryAlwaysCovered` needs `~DriverErrors`; its invariant names, for a station that is
  down, who is still to act: an event in the queue, the handler, the timer or its callback.
  `JoinGetsItsNetwork` is about tasks that take turns (`[]OneAtATime`) and needs `~LateGotIp`;
  TLC finds a counterexample without either: from the accepted `esp_wifi_set_config` on, whoever makes the driver
  connect, the join or a retry that was due, connects to the target (`JoinInv`), and that
  there is a link at all follows from the two theorems about the bits.
- `OtaProofs`: `OtaInv` says what each step of `ota_task` knows (the handle is set just when
  the update is open, the target is not the running partition, a success so far means
  a verified image). One update runs at a time.
  Together with the MQTT client (`MqttOta`): the composed system takes only steps of each part, so
  both parts' invariants
  carry over; `UpdateIsNotCutOff` and `ClientsAreExclusive` add that during an update which
  took the client away there is no client that could ask for a restart.
  With crashes (`CrashBoot`): `CrashBootImplementsOta`: the check at boot does nothing to the partitions
  that the `boot` command could not do, so the results about the update hold
  (`CrashesNeverBrick`). `CrashBadStaysOut` and `CrashGoodStays` rest on `BootCore`: an image that
  crashed early either is out already, with the boot flag on recovery, or it is followed by
  the check with a valid, positive count and a crash as reset reason.
- `TcpLogProofs`: `LogStoppedIsGone`, for any queue, loggers, callers and failures. The caller sees of
  the task only its handle, and the level it looked at may change behind it; `LogInv` says that
  the handle tells whether there is a task, how far the task is tells what there is of the queue
  and the socket (`TaskOwns`), and that the level stays what a caller in `tcp_log_init` has found
  (`LevelHolds`). The last needs callers that take turns (`[]OneAtATime`): with two at
  once, one may create the task from a level the other has lowered since, and TLC finds it. In the
  repository `nvsconf` calls it, and `dev_mon_task`, which nothing starts.
- `PcLinkProofs`: `LinkOnePair` and `LinkNoOldData`, for any connections, buffers, queues and
  faults, from one invariant: what is under way in the streams (`Streams`), what the queues of
  a task that may send hold since it emptied them (`Fresh`), and how many tasks there are at
  each point of the accept and receive loops (`Session`). `LinkServerLasts`, which no run
  states, says that the server task ends only when as many sockets as there are were lost to a
  COMMACK or COMMNACK that could not be sent: it counts the sockets in use (`Sockets`).
- `BtCommProofs`, for both builds, any numbers of characteristics and connections, and queues of
  any size. `BtInv` has four parts. `Messages` and `Quiet` say what the queues hold, and that
  nothing is on its way when the stack is not on: the messages under way are those in the
  receive queue, in a blocked `xQueueSend` and in the stack's queue of events, behind whatever else
  waits there. For the server, `Service`: for the call the server waits for, just one answer is to come, or
  none because a call was refused (`Ended`), and the table holds the handles of the answers that have come. `Flags`: the beginnings and ends of
  connections still queued say what will become of `btConnected`. From them `BtMessagesInOrder`, `BtServiceBuilt`,
  `BtFlagFollowsLink`. The messages in the stack's queue are a recursive function of it
  (`MessagesIn`); what an event more or less does to it is proved by induction, put as a
  statement about sets of numbers (`SetInduction`), which the provers can use.
- `BoardProofs`: `BoardIsItsParts`, a behaviour of `Board` is one of each part. Encoder:
  `RotTypes`, `RotKeyFollows`, `RotHeldKeyGoesOn`, and `RotImplementsReports`, the
  refinement of `KeyReports`. The invariant says that the last key message in the queue,
  or else `key_state`, is the level, and which press the next alarm means. Lemmas say what
  taking the head and appending to the tail do to "the last key message" and to "a
  timer message is queued". ADC: `AdcSamplesAreOwn` and `AdcNoLateSample`, for any callers. The invariant says that one
  caller at a time is past the mutex (`OneHolder`), that the interrupt runs only while its caller
  waits or is giving up (`TimerHasCaller`), and, for the caller that waits, that the
  interrupt's variables are its own and the cells filled are just `sample_count` (`SamplingInv`);
  a message left by an earlier call is gone because the queue is reset while the timer is stopped.
  AD7811: `AdChannelRead`: from the transfer that selects the channel on, what the converter has
  selected is what was asked for. Store: `NvsSavedIsUsed`: what was saved is committed, and a key that `get_nvs_conf` or
  `nvsconf` is writing is not one of those, so that losing an uncommitted write loses nothing saved.
  `NvsImplementsStore` is the refinement of `ConfStore`. Committed keys are its store; what is written and not
  committed is one key, and the value is one that `ConfStore` lets it have (`WrittenIsOne`), so
  that a power failure, which may keep it or lose it, is a step of `ConfStore`; the keys `get_nvs_conf` has
  read are in use as they are committed, or their defaults are (`InUseSoFar`).
- `GpsProofs`, for any numbers of epochs, satellites, faults and queue places. `GpsNewestPosition`
  needs the types alone. For the others, the first part of the module says what
  the decoder does with a piece of a line: the items of a piece are taken one by one (an induction over its
  characters, `PieceDecoded`), and meanwhile the XOR has what was read since the last `$`. A line that
  was cut, garbled or robbed of its head does not pass (`Counted` is empty), so
  `parsed_statement` holds only statements whose end came undamaged. `GpsCompleteUpdate` rests on
  that (`Complete`: so do the window since the last update and every update in the event
  loop). `GpsCleanUpdate` needs more, because a field is stored before the checksum is known: while
  nothing was lost since the last update, lines come in the receiver's order (`Chained`: the
  first line of the ring, or the next one the receiver writes, comes right after the last one read), the fields
  of each statement counted were all received in this window, adjusted just once, but for
  those a TXT has overwritten since (`FieldsGood`), and the
  satellites described so far are those of the messages of the group (`SatsGood`).
  Both assume `[]Apart`. It is about lines, not about the decoder: a line without its head that follows one with
  the same checksum passes, because the XOR is cleared only by `$`. In the model the same line
  must come again, with every line between lost; `Epochs`
  makes the lines repeat, and enough losses at once allow it, so that it cannot be proved of all
  constants. With the bounds of `Gps.cfg` it holds (add it there as an INVARIANT), and that run checks
`CompleteUpdate` and `CleanUpdate` without it. In the device it takes two different lines with the
  same XOR, which 8 bits do not exclude: the two theorems say what holds when that does not happen.

Only model-checked: the liveness properties (beyond TLAPS: `Reconnects`, `StuckBrokerReboots`,
`MqttComesBack`, `OtaEnds`, `TerminateWorks`, `LinkComesBack`, `PositionsKeepComing`,
`AdvertisesAgain`, `Subscribes`, `InactivityReported`, `AdReturns`, `FlashGoesOn`). Every other invariant and action property of a passing run
is a theorem.

## 5. What is left out, and why

- Wi-Fi: access-point mode, scan results, printing. MQTT: the content of messages,
  subscriptions. OTA: progress output, two updates at once (the buffer is static: a hazard).
- TcpLog: two calls of `tcp_log_init` at once by tasks other than the log task; what
  FreeRTOS does with a queue that was deleted.
- RotEnc: the user interface is taken to have room; the count sent with K_DOWN, the knob's
  direction, and the interrupts between their installation and the creation of the queue.
- PcLink: `socket()` may be refused at any time (a client may run out at its first try);
  short sends and the short last receive of a dying stream, name resolution,
  socket numbers and their reuse, the lifetime of the task parameters.
- CrashBoot: the descriptive fields of the record; `clear_crash_info`, which nothing here calls.
- Gps: lines of at most 82 characters, as NMEA 0183 has it (`TextLength <= 61`), and items
  other than the text of a TXT of at most 14 (`ItemLength`), which fit: so an overflow ends before
  the satellites, and `item_pos`, a uint8_t, does not wrap. What an overflow leaves in a
  field is a value that was not received. Out of the model: the characters of numbers and the conversions of degrees; unknown statements other
  than as noise; set-up and tear-down, including an initialisation that failed and is used
  all the same (nmea_parser.c 893); `get_dist`, floating point on a structure another task writes.
- Bluetooth: answers of the stack to the server's registration with a bad status (a call may be
  refused, but an accepted one succeeds). A "bt stop" that comes while the stack's task waits in
  `xQueueSend` takes effect after that wait: `esp_bluedroid_disable` is carried out by the stack's
  task and waited for, and the queue is deleted behind it; nothing else looks at what 484-520 changes
  in between, so that `BtStop` is one step. Profile B (its registration indexes past its table of one entry), reads, prepared
  writes, which the code only logs, confirmations, what `bt_notify_task` sends, the MTU's value,
  pairing. A failed queue or task creation is a failing step of `btcomm_init`.
- Adc: the continuous mode, calibration and the statistics over samples. A run of the interrupt is one step,
  because it runs on the core of the tasks by default; on the other core `gptimer_stop` may return
  during one. Ad7811: two callers (`adcval_mutex` is made there and never taken).
- LedFlash: a timer that cannot be made; pin 0 as an output.
- NvsConf: the certificates, the blobs of nvs.net80211, and values of `broker_url` and `log_server`
  of 32 to 127 characters, which are copied into 32 bytes (a hazard in `PROJECT.json`).
- Components without a module are listed in `PROJECT.json` with the reason.

## 6. Plan

Done, in this order: WifiSta and NetState, Ota, MqttCtrl, MqttOta, TcpLog, RotEnc and
KeyReports, LinkNet with TcpServer, TcpClient and PcLink, CrashBoot; the proofs of Wifi, Ota,
MqttOta, RotEnc and CrashBoot; Nmea and Gps; Bluetooth, BleServer, BleClient and BtComm; Adc,
Ad7811, LedFlash, NvsConf and Board, with the proofs of Adc, Ad7811 and NvsConf.

The proofs of TcpLog, PcLink and BtComm, of `JoinTrueMeansTarget`, and of Gps; ConfStore as
the abstraction of NvsConf.

Next: two updates at once in Ota, and the access-point half of the Wi-Fi commands.

The runs are kept few, one per question. Small device components share a module that
picks one of them in its initial states and leaves the others alone.
