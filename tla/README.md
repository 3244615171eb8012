# dmesh-l2 in TLA+

This directory holds a formal model of dmesh-l2: the layer that moves frames and
messages between neighbouring devices over Wi-Fi (P2P groups through
wpa_supplicant, NAN), Bluetooth and LoRa, on Linux hosts (Go, `src/pkg`) and on
ESP32 boards (C, `src/esp32`). Modules are checked with TLC on small instances;
the theorems are proved with TLAPS for every value of the constants.
`PROJECT.json` lists for each definition the source lines it models, for each
property the mutant that breaks it, the hazards and the findings.

## 1. Inventory

| Component | Source | State | Operations | Interacts with |
|---|---|---|---|---|
| wpa_supplicant control channel | `pkg/l2/wpa.go`, `wpa_proto.go` | two datagram sockets, `cmdMutex`, `currentCommandResponse`, `pendingDisc`, tables of P2P devices | DialWPA/Redial, sendCommandTO, handleWPAStream, onEvent, Status, Scan, P2PDiscover, Connect, APStart/APStop, scan results | wpa_supplicant (datagrams), message bus, DHCP server |
| DHCP server of a P2P group | `pkg/l2/dhcp.go` | map of leases | ServeDHCP per message type, freeLease | clients of the group |
| NAN driver, ESP32 | `esp32/components/esp-nan-aware` | `aware` record, one shared peer, out queue, one-shot timer | nanQueue, nanStart, nanStop, sniffer callback, timerCB | Wi-Fi driver, esp_timer, console |
| NAN driver, Linux | `pkg/l2/wifi/nan.go`, `client_linux.go`, `pkg/l2/nan_driver.go` | monitor interfaces, shared frame buffers, `LastSent`, schedule | SendFrameRaw, SendBeacon, SendFollowup, StartReceive, setupMonInterfaces, ScheduleBeacon | nl80211, packet sockets |
| LoRa radio, ESP32 | `esp32/components/l2lora` | radio mode and flags, event queue, receive modes | loraSend, lora_task, task_lora_read, register_lora, cmd_lora | SPI, interrupt, message bridge |
| BLE scanner, Linux | `pkg/l2/ble.go` | table of nodes, connections | Scan, maybeConnect, handleCon, CleanOlder | BLE library |
| BLE and BT serial servers, ESP32 | `esp32/components/l2-ble-bt` | connection handle, MTU, congestion | gatts_event_handler, bleSend, esp_spp_cb, btSend | Bluetooth stack, message bridge |
| Message bridge, ESP32 | `esp32/components/l3dmesh/dmesh.c` | -- | onMessage | LoRa, BLE, BT, NAN |
| DNS-SD records | `pkg/l2/wpa_dnssd.go` | -- (pure) | parseDisc, packDns, packTxtBytes, parseDns, unpackDomainName | control channel |
| Monitor sockets | `pkg/l2/mon.go` | ring | afpacketComputeSize, InitMon | kernel |
| iptables rules | `pkg/l2/iptables` | rules per interface | handleCommand, setupIf | iptables |
| Network status, Linux | `pkg/lmnet` | visible networks, connection | OnNetStatus | control channel |
| Wi-Fi station of the ESP32 | `esp32/main/wifi_sta_ap.c` | event group, driver and netif handles, `initialized` | init_wifi, wifi_sta, wifi_join, stop, event_handler | Wi-Fi driver, console |
| Console, boot and NVS of the ESP32 | `esp32/main/console.c`, `main.c` | settings in flash, `errno`, the light sleep lock | app_main, console_task, nvs_set/get/namespace/list | all other parts |
| Sleep and system commands | `esp32/components/l3dmesh/cmd_system.c` | wake-up sources, automatic sleep | deep_sleep, light_sleep, restart | console, chip |
| Display, I2C and GPIO | `esp32/main/ui.c`, `components/ssd1306`, `i2c`, `gpio` | I2C driver per port, pins, display pages | task_ui, i2cconfig/detect/get/set/dump, gpio | each other, through port 0 |

Generated code, headers and the CC2540 sniffer have no logic of their own that a
model would say something about.

What is hard here, and what each part has to get right:

* **Control channel.** Any goroutine may send a command; replies carry no
  identification, arrive by another goroutine and perhaps after the time limit;
  event handlers send commands from the goroutine that reads replies; sockets
  fail; a reply waits in the buffer the next message is read into. Correct means:
  one command at a time, a reply goes to one caller and never to somebody else's
  live command, every command ends.
* **DHCP server.** Clients restart, retransmit, lose packets and ask for
  addresses they remember; leases expire. Correct means: no address in use
  twice, none outside the range.
* **NAN on the ESP32.** Three tasks change the queue, the peer and the timer
  without a lock; nanStart may be called while timers of an earlier start are
  armed. Correct means: no write past the queue, no entry sent that was never
  stored, sync beacons that never die out, queued messages that are sent.
* **NAN on Linux.** Buffers global to the package, a mutex per instance; a rate
  limit whose reference time another goroutine resets. Correct means: interfaces
  that go on transmitting when reports are lost.
* **LoRa.** A sender polls a flag that another task may clear, in a mode another
  task may leave; setters read a register and write it back without a lock.
  Correct means: an interrupt per packet, link parameters that no overlap loses.
* **Wi-Fi Direct on Linux.** Scan goroutines and the stream reader share records
  without a lock; a timer reads the group's interface a second after its start.
  Correct means: networks reported with their own passphrase, a DHCP server for
  the group there is.
* **Bluetooth on the ESP32.** Callbacks see links as they were when their events
  were queued, and one set of variables describes the client. Correct means: one
  client at a time, addressed by its own link and MTU, and a server that can be
  reached when it has left; over the raw HCI, advertising that stays on although
  tasks of earlier starts share the command buffer.
* **A node as a whole.** The console runs before app_main is through; settings
  outlive restarts; wake-up sources outlive commands. Correct means: what was
  reported as stored is stored, the console can wake the node and keeps it awake
  while it is used, the station tries again after each loss, mesh sleep ends.
* **I2C.** Commands delete the driver under the display's task. Correct means:
  no driver left behind, a display that is drawn in full while left alone.

## 2. Modules

| Module | Models | Proofs | Source |
|---|---|---|---|
| `WpaCtl` | control channel | `WpaCtlProofs` | `wpa.go`, `wpa_proto.go` |
| `Dhcp`, `AddressPool` (abstract) | DHCP server with its clients, and what it promises | `DhcpProofs` | `dhcp.go` |
| `P2pPeers`, `DnsSd` (operators) | Wi-Fi Direct devices: service discovery responses, scans, reported status | `LinuxProofs` | `wpa_proto.go`, `wpa.go`, `wpa_dnssd.go` |
| `P2pGroup` | the node's own group and the start of its DHCP server | `LinuxProofs` | `wpa_proto.go`, `dhcp.go` |
| `NanTx` | NAN on Linux: the sending goroutines and the receiver of reports | -- | `nan.go`, `client_linux.go`, `nan_driver.go` |
| `MCLinux` | `Dhcp`, `P2pPeers`, `P2pGroup`, `NanTx` side by side | `LinuxProofs` | |
| `NanEsp`, `MCNanEsp` (model values) | NAN driver of the ESP32 | `NanEspProofs` | `nan.c`, `nan.h` |
| `NanFrames` | the frames of that driver, sent and parsed | `DriversProofs` | `nan.c`, `beacons.c` |
| `LoraRadio` | tasks that share the LoRa radio of the ESP32 | `LoraRadioProofs` | `lora.c`, `lora_drv.c`, `cmd_lora` |
| `LoraModem` | the driver's setters as interleaved register accesses | `DriversProofs` | `lora_drv.c` |
| `I2cBus` | display task and I2C commands on the same ports | `DriversProofs` | `ui.c`, `ssd1306.c`, `i2ctools.c`, `cmd_gpio.c` |
| `MCDrivers` | `NanEsp`, `NanFrames`, `LoraModem`, `I2cBus` side by side | `DriversProofs` | |
| `BtServers` | BLE and Bluetooth serial servers and the message bridge | `BluetoothProofs` | `ble_spp_server.c`, `bt_spp_server.c`, `dmesh.c` |
| `HciAdv` | advertising over the raw HCI (a file that no build has) | `BluetoothProofs` | `ble_hci.c` |
| `MCBluetooth` | `BtServers`, `HciAdv` side by side | `BluetoothProofs` | |
| `Nvs`, `Station`, `Power` | settings, Wi-Fi station, sleep | `NodeProofs` | `console.c`, `wifi_sta_ap.c`, `nan.c`, `cmd_system.c` |
| `Node`, `MCNode` (settings and inputs) | their composition with boot, console and restarts | `NodeProofs` | `main.c`, `console.c` |

`Node` composes parts that share state: its actions are conjunctions of actions of
`Nvs`, `Station` and `Power`. The modules `MC...` put parts that share none into
one run: a variable chosen initially says which one a behaviour is about.

### WpaCtl

State: each socket is `nil`, `open` or `broken` (writes to it fail) and has a
reader or not; per goroutine a position, the command it runs and what
sendCommandTO returned; the datagrams under way in both directions; the
replies held by `onCommandResponse` goroutines; the channel in force. Commands
are numbered in the order they are written. A reply that was read has the number
of the command it answers and, as `text`, the number of the reply whose bytes it
holds now (0 for an event's): `Overwrite` changes it when the next message is read
into the same buffer before the goroutine has copied it. `sent` and `abandoned`
(commands whose caller has left) are history, used by properties only.

Actions: `Redial` and, after it, `Attach` (the p2p reader runs before the main
socket is attached); `Begin` (a caller starts an operation, or the goroutine
`sendScanResults` starts); `Lock`, `Write`, `WriteFails`, `Receive`, `Timeout`
are the pieces of sendCommandTO between which other goroutines run; `Return` is
what the operation does with the result, and picks its next command
(`ConnectThen`, `APStartThen`, `GroupStartThen`, `Then`); `ReadReply` and
`ReadEvent` are one turn of handleWPAStream, the second of which runs onEvent in
the reader itself; `OnCommandResponse` is the goroutine started for a reply.
`Supplicant`, `SendEvent` and `SocketFails` are the environment.

Abstractions: ATTACH and LEVEL of one socket are one step. An event handler of the
p2p reader may send a command on the main socket before that, and startWPAStream
takes its reply for the one to ATTACH. A failed dial leaves a typed nil in the interface
variable, which is not equal to nil and whose writes fail: `broken`. The
contents of replies are not parsed; the time limit is a nondeterministic step.
With `Prompt` a command times out only when no reply to it is under way that
could still be read.

### Dhcp

State: the leases, which of them have expired, the protocol state of every
client and the packets each has sent. Slots are counted from the start of the
range; clients may also ask for the slot before it (the server's address) and
the one after it. `ServeDiscover`, `Acknowledge`, `Refuse`, `Ignore` and
`ServeRelease` are the branches of ServeDHCP; freeLease's random search is a
choice among the slots it accepts, as is Go's map iteration. The clients and the
network are external: a client restarts, gives up, renews, declines,
retransmits, remembers addresses; packets are lost but one client's are not
reordered. A client uses a reply only in the transaction it belongs to, and
stops using an address no later than the server's expiry.

`AddressPool` is the promise: a station takes an address only while no other
uses it. `Dhcp` implements it with `using[n]` = the address of a bound client.

### NanEsp

State: Wi-Fi started or not, `running`, the timer handle and the timers that
will fire, the one shared peer (`mac`, cluster), `outQueue` and `outQueueLen`,
the console's command buffer, and the positions of the console task and the
Wi-Fi task. Increment and decrement of `outQueueLen` are a load and a store. A
queue entry records the text its pointer referred to when it was stored, `line`
what the buffer holds now: `SendQueued` transmits the latter.

Actions of the console task: `NanQueue`, `StoreEntry`, `LoadLength`,
`StoreLength` (nanQueue), `NanStart` with `CreateTimer`, `StopTimer`,
`ArmTimer`, `NanStop`, `OtherCommand`; of the timer task: `TimerFires`,
`TimerCB`; of the Wi-Fi task: `DiscoveryBeacon`, `SyncBeacon`, `SendQueued`,
`LoadForDecrement`, `Decrement`, `ServiceFrame`, `PingFrame`. A failing
ESP_ERROR_CHECK restarts the device (`Restart`), and so may handleDAF's answer
to a PING, which is written into an array declared `const`.

Abstractions: the device boots in NAN mode; tasks may be preempted at any load
or store, which includes what the single-core configuration does; frame layouts,
counters, time and master election are left out. `cmd_nan` declares `--send` as
mandatory, so start and stop are given together with a text that is not queued.

### LoraRadio

State: the mode and the interrupt flags of the radio, the number of events in
`rcvQ`, the receive modes and `beaconBand`, the flags lora_receive_packet has
read and not yet used, and where each task is. `LoraSend`, `Fill`, `Transmit`,
`Poll`, `Sent` are loraSend with lora_send_packet, run by lora_task (which then
takes `Listen`) and by the Bluetooth task through onMessage; `Wake` to `WrapBand`
are task_lora_read with lora_handle_beacon; `ReceiveBeacon`, `ReceiveUpstream`,
`ReceiveData`, `LoraReceive` start reception for any task; `Console` is cmd_lora.
`RxDone` and `TxDone` are the radio: flags are cleared by writes only, DIO0 rises
only when RxDone was clear, and a transmission whose mode is changed is lost.

Abstractions: a register access is atomic (the SPI driver's own queue is not
modelled), as is the set-up of the modulation; the FIFO and contents of packets
are left out; a radio was found at start-up. `lora_repeat_send` and
`lora.onMessage` are never set in this repository, so the reader does not send.

### P2pPeers and DnsSd

`DnsSd` has packDns and parseDisc as operators over offsets: a message is the
position and length byte of each string and what follows the response. A slice
out of range is an outcome ("panic"). Names and passphrases are model values.

`P2pPeers`: `P2PByMAC` holds the records, `P2PBySSID` refers to them by device,
as the pointers in the code do. `ServDiscResp` fills a record in; `ScanResults`,
`ScanLine`, `PostStatus` are the goroutine sendScanResults, which writes the SSID
of a line into the record it finds and marshals the records at the end. Go maps
that are read and written at once may end the process (`MapRace`), as does a
panic; `Restart` begins with empty tables. A response that parseDisc refuses
changes no field and is left out, as is onP2PDeviceFound, which only sets a name.
The writes of one response are one step: a scan in between could only mix the
networks of a device that changed its network, which the property allows anyway.

### P2pGroup

The reader handles the events of wpa_supplicant in order; OnP2PGroupStart is two
actions, before and after its sleep (`OnP2PGroupStart`, `AddService`).
`TimerFires` and `DhcpServer` are the two places where p2pGroupInterface is read
again. Commands may be lost, since their result is ignored. When a group ends
between the two, a server is started for the empty name; the model has that and
no property forbids it.

### NanTx

Per interface the place of its goroutine (`sending`), `LastSent` as far as the
rate limit can tell it, and the TX reports that may still come. `StoreFirst` and
`Transmit` are the two halves of the unsynchronised store of LastSent: a report
handled between them (`TxStatus`) leaves a time that mixes a reset with a new
time, which may lie in the far future. `FramesContinue` holds without any
assumption about reports, with two exceptions it names: that mixture, when no
further report comes, and a FRAME_WAIT_CANCEL of an interface made after the
start (`WaitCancelUnknown`), which ends the process. Without the first exception
TLC finds an interface that is silent for ever. A discovery frame, sent right
after a beacon, is given up unless the report of the beacon has come in between;
that is why the property is about frames of either kind.

### NanFrames

A frame is a length and a function from offsets to what the receiver decides by.
`nanSendPublish`, `nanSendNow` and `nanSendSync` build frames, `Walk`, `Meaning`
and `IsSync` are the loops of handleDAF and handleBeacon. nanSendPublish is also
sent in answer to a publish frame, since its type argument is not used.

### LoraModem

Each setter is a sequence of register writes and read-modify-write pairs
(`Write`, `Update`); a task runs one program at a time, accesses of two tasks
interleave freely. `LoraRadio` treats the same setters as steps and is about the
interrupt; the two are separate because their product is too large to explore.

### I2cBus

Per port a driver and its pins, the display task (`RegisterUi`, `Wake`,
`UiSetline` in `Println`, `Release`) and one console command at a time
(`Install`, `ParamConfig`, `Transact`, `DriverDelete`; `GpioReset`, `GpioBus`). A
pin carries the signals of one port (`Route`): a command that configures port 1
with the display's pins takes them from port 0, and gpio may take them too or hold
the display in reset, which undoes its set-up (`awake`). After a command on port 0
the display has no driver until a restart. `touched` and `taken` record such
commands; `PagesDrawn` is about displays that were left alone by them, whatever
else runs, and `DriverFreed` says what is left for them otherwise.

### BtServers and HciAdv

`BtServers`: the queue `btc` of the Bluetooth task, the links as they are
(`link`, `open`) and what the driver believes (`conn_id`, `is_connected`,
`mtu_size`, `spp_handle`). Clients change the links and queue events; `Handle`
takes the first event and runs its callback. A message is handed to LoRa in that
task, which waits there (`busy`) until `LoraSent`. `bleSend` computes the
fragments of a message with its one-byte counter, or drops it when there is no
memory for them. `ble --stop` ignores what its two calls return: either may leave
its layer enabled (`StopController`). A host over a disabled controller is a
`fault`; no link exists then, and properties about links ask for both layers (`Up`).

`HciAdv`: `ble_hci.c` is kept in the repository but is not among the sources of
its component, and its registration is commented out (`console.c:734`); the module
says what the file would do. One task per start, which may fail to be created
("failed"; the code ignores it and keeps hciRun set); a stop may leave the
controller enabled (`kept`); `Fill` and `Send` are apart, so that two tasks can
overwrite the buffer `hci_cmd_buf`. SF of `Fill`: a controller that is enabled
is found ready again and again.

### Node

`Nvs` has the value a command was told is stored (`told`), what reads return and
what the flash keeps; an uncommitted write may or may not survive, and a value of
another namespace changes nothing but errno (`SetOther`). `Station` has
the link, the queue of events, CONNECTED_BIT, the handles and who initialised the
driver: `NanStart` and `NanStop` (the command nan, in any mode) use the same driver
without a look at the station, and stop or a join then aborts or returns half-way
(`StopAborts`, `StopNothing`, `WifiStaAborts`). event_handler ignores the result of
esp_wifi_connect, which may be refused (`refused`) and is when NAN has stopped the
driver. `stale` marks a bit
that stop left set, `cut` (in `Power`) wake-up sources that a refused light_sleep
took away: these are states the code really reaches, and the properties say that
they are the only exceptions. `Node` adds the main task, which reads settings
written by the console, and restarts at any point.

## 3. Runs

| Run | Instance | Shows |
|---|---|---|
| `wpa_commands` | 2 callers, 2 readers, 6 operations, 2 events, sockets may fail, time-outs anywhere | `TypeOK`, `OneCommand`, `ChannelStable`, `AnswerAttributed`, `RepeatOverwrites` |
| `wpa_ends` | 1 caller, 3 operations, all 7 events, fairness | `CommandEnds` |
| `linux` | 2 DHCP clients, 2 addresses, 2 packets each; 2 devices with 2 networks, 3 kinds of response; 3 groups; 1 NAN interface, 2 reports; fairness | `TypeOK`, `AddressUnique`, `PoolSpec`, `StatusConsistent`, `ServedGroup`, `FramesContinue` |
| `lora` | all tasks, NVS modes 0 to 3, 2 bands, queue of 2, fairness | `TypeOK`, `EventPerPacket`, `PacketHandled` |
| `drivers` | NAN: 2 stations, 2 messages, queue of 2, 2 starts, 1 restart; frames of lengths around 0, 255 and 512; LoRa: 2 tasks, 2 bands; I2C: both ports, all commands | `TypeOK`, `QueueBounded`, `SentWasStored`, `TimerAlive`, `DriverTypes`, `LinkKept`, `ModeComplete`, `DriverFreed`, `PagesDrawn`, `FramesParsed` |
| `bluetooth` | 2 BLE and 2 serial clients, 2 MTUs, queue of 2; HCI: 3 starts; fairness | `TypeOK`, `SingleClient`, `LinkKnown`, `HandleOpen`, `FragmentsCover`, `RunHasTask`, `Reachable`, `AdvertisingStays` |
| `node` | 3 configurations, 4 values to set, 2 events queued, restarts and power cuts anywhere, fairness | `TypeOK`, `Stored`, `BitFollowsLink`, `ConsoleWakes`, `AwakeForConsole`, `Reconnects`, `MeshSleepEnds` |

What the code does where one of its own comments or tests says otherwise
(expected violations):

| Run | Property | What TLC finds |
|---|---|---|
| `wpa_match` | `ResponseMatches` | the late reply to a timed-out command is returned as the reply to the next one |
| `wpa_holder` | `HolderRuns` | sendCommandTO calls Redial with `cmdMutex` held; Redial locks it |
| `dnssd` | `ResponseParsed` | parseDisc cuts the strings five bytes too late: the message packDns makes ends the process of its receiver |
| `nan_esp_sent` | `QueuedIsSent` | the queue is not shifted: of two messages one is never sent as it was queued |
| `lora_send` | `SendEnds` | another task changes the mode of the radio during a transmission, and the sender polls for ever |

More that the models show and no run states. Each of these is a state that a
passing property exempts, and the note of its hazard in `PROJECT.json` says so: the
property shows that nothing else goes wrong there, not that the code avoids it.

* A reply may be overwritten before it is used, because handleWPAStream hands a
  slice of its read buffer to a goroutine: the next message is then delivered twice
  and may reach two callers (`text` in WpaCtl; `RepeatOverwrites` says that this is
  the only way; `ResponseMatches` fails for this reason too).
* A device that changed its network is reported with the old name and the new
  passphrase when a scan still lists the old one (`moved`).
* A report handled within the store of LastSent may silence an interface
  (`"future"` in NanTx).
* nanStop leaves the timer running, and a second start may leave two timers armed;
  `TimerAlive` is about the end of the chain only.
* beaconBand is one past the table while the reader wraps it around.
* An update of spreading factor, coding rate or header mode may be undone by a task
  that overlaps (`alone`); `LinkKept` is about the fields set at boot.
* A running raw HCI server whose task was not created does not advertise, and one
  whose controller was not disabled may go on (`"failed"`, `kept`).
* After stop a join finds CONNECTED_BIT set (`stale`).
* A station whose attempt to connect is refused, or whose driver nan --stop has
  stopped, is never tried again (`refused`, `driver`).
* A refused light_sleep leaves a node that the console cannot wake (`cut`).
* A line that linenoise does not return leaves the lock held, and the node awake,
  until the next line (`NoLine`).

And outside of the properties: a lease that has expired is offered by freeLease and
refused when it is requested. Status runs in the reader and never gets its reply
when there is one socket. After one value out of range every later nvs_set
is refused until something else changes errno. `wifi --stop` with NAN's driver
restarts the node.

**Bounds.** Two operations, or one and one event handler, are enough for a late
reply to meet another command, for two goroutines to compete for the mutex and
for a handler to run while a caller waits; replies in flight are not bounded
otherwise. Operations of Connect (five commands in a row) are in the model and
in the theorems but in no run: with every time-out and event the instance
outgrows a short run. Two clients and two addresses give DHCP every conflict a
pair can have; two packets under way allow a retransmission, or a release
followed by a new request. Queue size 2 has a first, a last and a full state;
two starts give a stale timer and a current one. The LoRa model needs no bound;
with two bands instead of eight the index still wraps, and `EventPerPacket`
shows that a queue longer than one is never used. Two devices with
two networks give a scan that sees a known, an unknown and a renamed network;
three groups leave two timers of earlier ones behind; NAN interfaces share only
what `NanTx` leaves out, so one is enough, and two reports let that of an earlier
frame meet the store of a later one. Frame lengths are those at
which a count, a cut or a buffer changes; MTUs lie on both sides of the server's.
Two Bluetooth events may wait, enough for a disconnection behind a connection;
three starts of HCI give two stale tasks. In `node` the setting that changes is
one string key; four inputs cover each outcome of nvs_set.
`CHECK_DEADLOCK FALSE` is set where a system may come to rest: WpaCtl, whose
goroutines may all be idle, or blocked as `wpa_holder` shows, when the bounds are
used up; a Linux node after its last group; a frame that was sent; a Bluetooth
or HCI build that was stopped after its last start; a node that sleeps without a
wake-up source.

**Fairness.** `WpaCtl!Fairness`: runnable goroutines run and timers fire (weak
fairness); `Lock` is strongly fair because sync.Mutex hands the lock to a
goroutine that has waited more than a millisecond. Nothing is assumed of
wpa_supplicant in `wpa_ends`, which excludes failing sockets, where `HolderRuns`
fails and commands do not end. `NanEsp!Fairness`: the timer task runs, a task in
the middle of a function goes on, and sync beacons keep arriving.
`LoraRadio!Fairness`: tasks that do not wait for input go on, a polling sender
sleeps between polls, and the radio ends a transmission that nobody aborts;
packets and commands need not come.
`P2pGroup!GroupFairness`: the reader, timers and goroutines run; groups need not
come or go. `NanTx!TxFairness`: tickers tick, goroutines run and time passes; no
report has to come. `BtServers`: the Bluetooth task runs its queue; nothing is assumed of
clients. `HciAdv!Fairness`: commands and tasks go on, and an enabled controller is
found ready again and again. `Node!Spec`: the event task handles what is queued,
the chip wakes for it, and the timer of deep sleep fires; neither the radio nor
the user has to do anything.

## 4. Theorems

Every invariant and action property that a passing run checks is also a theorem, for any
number of goroutines, stations, clients, tasks, devices, addresses, messages and
queue entries. The theorems assume the named ASSUMEs of the modules, which TLC
evaluates in each run, and nothing else.

* **`WpaCtlProofs`**: `TypeCorrect`, `OneCommandHolds`, `ChannelStableHolds`,
  `AnswerAttributedHolds`, `RepeatOverwritesHolds`.
  `OneCommand` is inductive together with the type invariant: only `Lock` enters
  the critical section and only when the mutex is free. `ChannelStable` follows
  step by step: a step that shortens or replaces the channel is `Lock`, which
  needs a free mutex, or `Receive`, whose goroutine stops waiting.
  The two about replies follow the number of a command through six places (two
  sockets in two directions, the onCommandResponse goroutines, the channel).
  `ReplyInv` says that a number is in one place (`OnePlace`) and once
  (`NoRepeat`), that it was written and a waiting goroutine wrote the last one
  (`Numbered`), that it is waited for or abandoned (`Owed`), and that what was
  returned is in no place (`Gone`). Without `Owed` a late reply might belong to
  a caller that still waits; without `NoRepeat` a second copy might be returned.
  `OrderInv` is about the texts: those of one socket are read in the order their
  commands were written (`Order`, `Bounded`), so that a buffer only ever holds the
  text of its own reply, of a later one that was written, or of an event (`Texts`,
  `Returned`); a text that differs from its number was overwritten.
* **`DhcpProofs`**: `TypeCorrect`, `AddressUniqueHolds`, `ImplementsPool`. Uniqueness
  is not inductive: the invariant adds that every bound client holds the lease of
  its slot and has no release of its own still on the way, which would take the
  lease away (`Held`), and, so that this survives an acknowledgement, that a
  release is older than every packet the client expects a reply to
  (`ReleaseFirst`). The refinement uses the same invariant.
* **`LinuxProofs`**: `StatusConsistentHolds`, `ServerUnderWayHolds`.
  `PeersInv` relates the two tables: a record with a passphrase names its own device in both fields (`OwnRecord`), and
  what an SSID leads to is the record of its device, with that passphrase until
  the device changes its network (`OwnName`). That a response establishes this
  needs what parseDisc returns for what packDns wrote, for any bytes behind it
  (`ParsedTwo`). It is shown from the recursive definitions: a function that
  solves the recursion of parseDns exists, since offsets grow, and a least
  counterexample (`Least`, from the well-foundedness of the naturals) is excluded.
  `ServerUnderWayHolds` is the safety half of `ServedGroup`: a group without a
  server always has an event, the reader, a timer or a goroutine left that will
  read its interface. It needs that the last event that waits is the start of the
  group there is (`Followed`), so that the end of an earlier group, handled late,
  never clears the interface of a later one for good.
* **`NanEspProofs`**: `TypeCorrect`, `QueueBoundedHolds`, `SentWasStoredHolds`,
  `TimerAliveHolds`. The invariant bounds the registers of both tasks as well as
  the length (`Lengths`), says that a positive length, or one about to be
  stored, implies that entry 0 was stored (`FirstStored`), and records what a
  console command established before it was preempted (`InCommand`). It shows that lost
  updates of `outQueueLen` are harmless for memory, though not for delivery.
* **`LoraRadioProofs`**: `TypeCorrect`, `EventPerPacketHolds`. `EventPerPacket` needs
  one more fact to be inductive, that the flags the reader is about to clear
  include RxDone (`ClearsRx`): then the flag falls with the event that announced
  it, and the next packet has an edge of its own.
* **`DriversProofs`**: `TypesCorrect`, `DriverFreedHolds`, `PagesDrawnHolds`,
  `LinkKeptHolds`, `ModeCompleteHolds`, `FramesParsedHolds`.
  I2C (`I2cInv`): whose driver there is at each step of a command (`Owner`), that
  the display has its pins and its set-up as long as nobody took them, and which
  pages a round has drawn (`Round`).
  Modem (`ModemInv`): what is left of a task's program is part of one of the
  driver's programs (`ProgOK`), a value read for an update carries the bandwidth
  (`LinkInv`), and of a program that nobody overlaps each goal is reached or still
  ahead, nothing ahead contradicts it and what was read is still there
  (`AloneInv`).
  Frames: handleDAF's walk is solved for frames of one attribute and of four
  attributes that follow each other, by giving the function that satisfies its
  recursion; the theorem is for messages of every length and every buffer with
  room for 298 bytes, the longest frame of nanSendNow.
* **`BluetoothProofs`**: `TypeCorrect`, `SingleClientHolds`, `LinkKnownHolds`,
  `HandleOpenHolds`, `FragmentsCoverHolds`, `RunHasTaskHolds`.
  `BtInv`: the right to advertise is in one hand at a time, an event of the stack,
  the controller or a link (`OneHand`), which is why there is a single client
  although no line of the code checks it; events of a link come before the event of
  its end and none of an earlier link is left (`InOrder`); what the driver knows
  once they are handled (`Known`, `MtuKnown`, `HandleKnown`). The arithmetic of
  bleSend's fragments is a lemma for messages of any size whose number of fragments
  is below 255, where the loop over the one-byte counter ends. `HciInv`: what holds at
  each step of a start or a stop (`ConsoleSteps`), and that a task is deleted only
  after it saw hciRun cleared (`LatestAlive`).
* **`NodeProofs`**: `TypeCorrect`, `StoredHolds`, `BitFollowsLinkHolds`,
  `AttemptDueHolds`, `ConsoleWakesHolds`, `AwakeForConsoleHolds`. For each part a lemma says which of
  its operations a step of the node may be (`NvsMoves` and its like). `NodeInv` adds
  to the properties that the last event posted agrees with the link even while the
  bit is stale (`BitInv`; the type invariant says that there is a link only over the
  station's own driver), that a station without a link has the event of its loss
  waiting (`AttemptDue`, the safety half of `Reconnects`), that the lock is held under a line or a command
  (`LineLocks`), and that the console's source is set from the moment app_main
  enabled it, before automatic sleep is configured (`UartWakes`).

Assumptions beyond ranges and distinct model values: the number of fragments of
the longest message fits one byte even with the default MTU (`BtAssumption`:
the serial profile hands over at most 990 bytes at once, of the 254 * 16 that fit),
sendBuffer has room for 298 bytes (`DriversAssumption`; it has 512), and fields of
the modem's registers hold the configured values.

Only model-checked: the liveness properties (`CommandEnds`, `PacketHandled`,
`ServedGroup`, `FramesContinue`, `Reachable`, `AdvertisingStays`, `Reconnects`,
`MeshSleepEnds`), which are out of the prover's reach, and with `FramesContinue`
the module `NanTx`, whose only property it is; and all expected violations.

## 5. Not modelled, and the plan

Left to model:

1. The frame buffers that `Nan` instances share, whose mutexes are their own: with
   two interfaces a frame may carry the address of the other one.
2. The contents of STATUS, LIST_NETWORKS and ADD_NETWORK replies.
3. SPI transactions below a register access, and a board without a radio.

Left to prove: the safety facts that the liveness of the other parts rests on, as
`ServerUnderWay` is for `ServedGroup` and `AttemptDue` for `Reconnects` (a mixed time of LastSent comes only from a
report within its store).

Not modelled, because the program does not use it, or there is no state the
properties could talk about: the BLE scanner on Linux (the program only calls
InitBLE; a test calls the rest in sequence), the network status of `pkg/lmnet` and
the iptables rules (packages nothing in the repository uses), the monitor sockets
(a capture loop), generated and constant tables (`nl80211`), the CC2540 sniffer,
and inside the modelled parts logging, fonts, the configuration of the access
point, NTP, TSF arithmetic and the election of a NAN master.
