# PRTSN in TLA+

PRTSN is an ESP32 firmware (Arduino core, C++20, FreeRTOS) with host tools in
Rust. This directory specifies its stateful parts in TLA+, checks them with TLC
on small instances and proves the central results with TLAPS. Paths below are
relative to the repository root; `fw:` stands for its `src/` directory.

The application `fw:cfg/AppConfig.h` selects is the **BLE Agent Panel**: up to
seven coding agents on a PC register in slots over BLE, and their states are
shown on an LCD and on LEDs. The specifications start there.

## 1. Inventory

### The BLE Agent Panel

| part | state | operations | concurrency |
|---|---|---|---|
| `AgentRegistry` (`fw:svc/inc/BleAgentLight/AgentRegistry.h`) | slot table, subscribers | register, setState, setText, unregister, beginLease, reap, agent | called by the BLE host task and by the application task; a critical section per call, callbacks after it |
| `BleGattTransport`, `BleAgentLightService` (`fw:svc/src/BleAgentLight.cpp`) | connected flag | GATT callbacks, poll | the BLE host task runs the callbacks one at a time |
| `DisplayService` (`fw:svc/src/DisplayService.cpp`) | dirty mask, last error, LCD | callbacks, display task | callbacks on two tasks, drawing on a third |
| `Ws2812Service` (`fw:svc/inc/BleAgentLight/Ws2812Service.h`) | told states and masks, LEDs | callbacks, setConnected, LED task | as above |
| application loop (`fw:app/examples/inc/BleAgentLightApp.h`) | displayed connection state | poll, mirror link state, pick up errors | its own task on core 1 |
| wire protocol (`fw:prt/BleAgentLightProtocol.h`) | none | decode, resultFrame | pure |
| host client (`tools/ble-agent-client`) | sessions, client connection | hook events, retry tick, register/set/unregister | async worker, one at a time; the panel is at the other end of a lossy link |
| hooks and daemon start (`tools/ble-agent-client/src/codex_hook.rs`, `daemon.rs`) | the socket path | send, spawn, retry; probe, remove, bind, serve | processes of their own, any number at once; a daemon can be killed at any time |

Correct means: a session key has one slot; a slot is not taken from an agent
whose lease runs; nothing of an old owner is left in a freed slot; what the LCD
and the LEDs are told is still so; no dirty row or LED is forgotten, whatever
fails; a suspended agent does not hold its slot for ever. Hard are the two
tasks that call the registry, `millis()` being read outside its lock, callbacks
after the lock is released, LCD and LED drivers that fail half way, and links
that come and go.

### Other services

| part | state and hard behaviour | what makes it correct |
|---|---|---|
| ESP-NOW node (`fw:svc/src/EspNowNode.cpp`, `fw:dvc/src/EspNow.cpp`, `fw:prt/EspNowProtocol.h`, `fw:ctl/src/EspNowEchoController.cpp`) | table of 16 nodes, event ring of 8, one pending acknowledgement per node, discovery, heartbeats, timeouts; packets arrive on the WiFi task while `update()` runs on the application task; lost, duplicated and reordered packets | a node's state follows what was heard from it; a command is retried until acknowledged or given up; no event is invented |
| MQTT server (`fw:svc/src/MqttServer.cpp`) | 8 clients, 16 subscriptions, reused slots | a publish reaches the subscribers and no one else; the slot of a client that left keeps nothing |
| MQTT client (`fw:svc/src/MqttClient.cpp`) | connection state machine, keep-alive, packet ids, one packet buffer | it reconnects, it never publishes unconnected, a late answer is not taken for another |
| HID keyboard and mouse (`fw:svc/src/NkroKeyboard.cpp`, `fw:svc/src/BleHidNkroKeyboardMouse.cpp`, `fw:svc/inc/NkroKeyboardService.h`, `fw:dvc/inc/NkroKeyboardScanner.h`, `fw:dvc/inc/BufferedMouseScanner.h`, `fw:prt/HidProtocol.h`) | one task scans, debounces and sends only what changed; both transports remember the last report; BLE callbacks run on the host task and drop the link between any two steps | what is remembered as sent is what this host has; once keys and link are quiet the host holds what is held; motion is neither lost nor repeated |
| buttons and key matrix (`fw:dvc/src/Button.cpp`, `fw:dvc/src/KeyBoard4x5.cpp`) | debouncing, event ring, polling and interrupt mode; the interrupt comes between any two steps of `update()` | presses and releases alternate; no edge is forgotten |
| WiFi manager (`fw:svc/src/wifi.cpp`) | connection state, timeouts | it does not stay connecting |
| serial console (`fw:svc/src/SerialConsoleService.cpp`) | command line buffer | lines are cut where they end |
| `Result`/`ErrorSet` (`fw:fw/inc/Result.h`) | none: a compile-time library | types, checked by the compiler and `tests/result_test.cpp` |
| drivers (`fw:fw`, `fw:dvc`) | peripheral handles | thin wrappers of ESP-IDF calls |
| algorithms (`fw:alg`) | filters, matrices, CRC | numeric; real arithmetic |
| serial TUI (`tools/serial-tui`) | terminal state | I/O |

## 2. Plan

Done, in this order:

1. `AgentSlots`, `AgentRegistry` and its abstract specification `SlotRoster`;
   proofs.
2. `DisplayService` with proofs, `Ws2812Service`, and `Panel`, which composes
   the registry, both services and the application loop.
3. `AgentDaemon`: the host client's worker against the slot table of the panel.
4. `EspNowLink`: the two tasks of every board over a radio that loses frames;
   `EventRing` and the queue it implements, `DropOldestQueue`.
5. `MqttServer`, its abstract specification `MqttBroker`, and `TopicMatch`;
   `MqttLink`: client and server in time.
6. `HidKeyboard`: matrix scanner, mouse buffer and both transports against a
   host that leaves and returns; proofs.
7. `Button`, which contains `EventRing`; proofs of both.
8. `DaemonStart`: hooks, daemons and the socket path.
9. Proofs of the LED service, the MQTT server, the daemon, both ends of MQTT,
   ESP-NOW, and the panel: every safety property a passing run checks is a
   theorem, but for `DuplicatesAreBounded` (section 5).

To do, the most important first:

10. The display's invariants for the rows of the panel, out of
    `PanelDrivesDisplay` and the theorems of the display.
11. The node table of ESP-NOW at its limit; the packet buffer and packet ids of
    `MqttClient`; the frames of the panel protocol at their length limits.
12. WiFi manager and serial console.

## 3. Modules

Every module opens with what it stands for; every constant, variable and action
says which part of the code it is. `PROJECT.json` (`map`) gives the lines behind
each definition. Operators commented `Mutant:` are never used by a
specification: each is a plausible wrong version of the definition next to it
and shows that the property it is written for can fail.

### The panel

**`AgentSlots`** is the slot table as a value. A slot is the record of
`AgentRegistry.h`; `RegisterAgent`, `SetState`, `SetText`, `Unregister`,
`BeginLease` and `Reap` map a table to the table after the critical section of
the same name. Names, texts and keys are opaque; time is `millis()` modulo
`ClockMod` (2^32 in the firmware), and `Elapsed` is the unsigned difference.

**`AgentRegistry`** puts the table between its two callers. A critical section
is one step. What the code does outside the lock is a step of its own: reading
`millis()` before `beginLease` (`HandleDisconnected`, then `StartLeases`) and
before `reap` (`ReadPollClock`, then `ReapExpired`), and telling one subscriber
after the other (`BleNotify`, `NotifyRemoved`). `Write` is a frame from the
client, dispatched as in `BleAgentLightService`; a rejected frame changes
nothing. Three ghosts measure time: `sincePoll` bounds how far polls are apart
(`PollGap`), `leaseAge` and `age` are the true ages that the code's wrapped
counters only approximate.

**`SlotRoster`** is what a client of the registry may rely on: owners and which
of them are connected, with the actions Claim, Reclaim, Suspend, Evict,
Release. `RosterSpec` in `AgentRegistry` is the refinement (owner = key of a used
slot, live = active slots).

**`DisplayService`** has the callers' side (`Change`, then `MarkDirty` and
`NotifyGive` per slot) and the display task, one step per access to shared
state: `TakeDirtyMask`, `DrainNotification`, `WakeUp`, `ReadSlot`, `DrawRow`,
`DrawFails`, `RememberError`. A row is a value; a failed drawing leaves it
`Garbled`.

**`Ws2812Service`** keeps the told state, the masks and what is lit. A callback,
the snapshot, the flush and its failure are steps; a wait ends by a timeout of
the blink period or by a notification.

**`Panel`** is `BleAgentLightApp`: `AgentRegistry` with `DisplayService` as its
first subscriber and `Ws2812Service` as its second, and the loop
poll → read `connected()` → `setConnected`. The variables `rows` and `telling` of
the display are expressions over the registry's state here; of the display's
callback only its own half, `Give`, is used, since the registry does the telling.
`setup()` subscribes two listeners, the display first, so `NumSubscribers` is 2
(`PanelAssumption`). The two outputs
share nothing, so a behaviour follows one of them, chosen at the start. The LED
task is left out: it writes nothing that is read here, and `Ws2812Service` has it.

### The host client

**`AgentDaemon`** is the worker of `daemon.rs` with the sessions of `session.rs`,
the connection of `ble.rs`, the transcript scan of `transcript.rs`, and the
panel as a slot table. `HookEvent` and `TurnAborted` are the environment; a
round is `Receive` or the retry tick, `DetectInterruptedTurns`, and the loop of
`synchronize` with one command and one answer at a time. Connecting either
succeeds, does not find the panel (`PanelNotFound`), or fails while the link is
set up (`InitializationFails`). Each end notices a lost link in its own time and
the panel may handle a command the client has given up. The table is the one of
`AgentSlots`, so the panel end is what `AgentRegistry` implements; leases run
out at any time.

Assumed: `disconnect()` brings the link down, and two sessions do not have one
`session_key` (a hash).

**`DaemonStart`** is how a daemon comes to run. A hook sends, or spawns a daemon
and tries again; a daemon looks at the path, probes the socket it finds, removes
a silent one, binds, listens and sets the mode of the file, which fails if the
file is gone. Every system call on the path is a step, since
these are processes without a lock. A socket is named after the daemon that
bound it, so that a file that was removed and bound anew is told apart from the
one that was probed; `Die` kills any daemon anywhere and leaves the file.

### ESP-NOW

**`EspNowLink`** has, per board, a WiFi task that handles frames and an
application task that runs `update()`, pops events, echoes and sends. They share
the node table and `m_txBuffer` without a lock, so sending is four steps: take
the number, encode into the buffer, hand the buffer to the driver, record what
the buffer holds. `encode()` writes the fields in place (type, flags, number,
acknowledged number, length) and computes the checksum last, over what is there.
So when both tasks are encoding, the end of one `encode()` leaves any mixture of
the two packets in which each task has written a prefix of its fields, and its
checksum is valid: `decode()` accepts it, if its length is the one the sender
hands to the driver. A packet is refused (`Garbled`) only if the buffer changed
after the checksum was computed, or while it is read. Time is abstract: a retry
may be due and a node silent at any moment; a retry that is due while something
is still on its way counts as a fault (`Quiet`).

Assumed: node ids do not collide; table and driver have room; checksums of
different packets differ; payloads are not looked at, but for their length.
Numbers are below 256: they do not wrap, and a mixture cannot take one byte of a
number from each packet. The numbers of broadcasts, which come from another
counter, are all 0; `DuplicatesAreBounded` leaves 0 out, and a broadcast whose number
happens to be that of a command, mixed into a packet that asks for an
acknowledgement, could exceed it by one. Taking the next sequence number is one
step. It is a read and a write in the code, and both tasks do it: a WiFi task
that writes back an old value could give two commands one number, and this the
model does not show. `heard` records, per board and per sender, the numbers a
board was asked to acknowledge, whatever the packet was. The events of a board are a bounded sequence that drops its oldest;
**`EventRing`** (array, head, tail, count) shows that the code's ring is one, by
implementing **`DropOldestQueue`**.

### MQTT

**`MqttServer`** has TCP connections, client slots, the subscription table, and
`update()` as a walk: accept, then slot after slot, packet after packet. A
SUBSCRIBE adds its filters one by one. The ghost `published` counts the messages
of each topic, also in `MqttBroker`, so that a copy that is lost on its way to the only
receiver is not taken for nothing happening. A write that fails leaves half a packet
with the peer, so it is taken as the connection breaking just before it.

**`MqttBroker`** knows connections and the filters they hold, no slots and no
table; `BrokerSpec` in `MqttServer` is the refinement. Which filter matches which
topic is a constant relation there.

**`TopicMatch`** is the two-cursor walk of `topicMatches`, and `Denotes`, a
reference that knows no cursors: the topic can be cut into one piece per symbol
of the filter.

**`MqttLink`** has client and server in ticks: both `update()` run once in each
tick, ages are counted up to a cap. `waiting` is the busy wait of
`connect()`: `ConnAck` ends it, or `NoConnAck` after `AckWait` ticks.

### Input devices

**`HidKeyboard`** is one pass of the scan task after another: `Scan` reads the
pins and takes motion out of the mouse buffer, then `Ready`, then the mouse
report and the keys, each as prepare, check and send. `transport` selects USB
(`NkroKeyboardService`, `NkroKeyboard`) or BLE (`BleHidNkroKeyboardMouse` and its
task), which differ in what they ask before sending, in what they forget when
the host is away, and in how a send can fail. The host's side is `link` and
`host`; over BLE the callbacks of the host task (`Connect`, `Disconnected`,
`RequestReset`) come between any two steps of the pass. `prepareState` consumes
the reset request, as in the code, each time it is called. Two ghosts: `owed` counts the
motion that is still to reach the host, `unseen` marks the reports of which the
code cannot know whether the host has them.

**`Button`** is `update()` cut where the interrupt can come between: the test of
the flag, its clearing, and the read of the pin. It extends `EventRing`, whose
ring keeps its events.

`MCInputs` and `MCOutputs` each put two modules that share nothing into one run:
`followed` chooses at the start which of them moves.

## 4. Runs

All runs take their constants from the `.cfg` of the same name; the `MC` modules
give the values a `.cfg` cannot write down.

| run | instance | shows |
|---|---|---|
| `registry` | 3 keys, 2 slots, 2 ticks of lease, a clock of 4 ticks, one subscriber | `OneSlotPerKey`, `NothingLeftBehind`, `NewsIsCurrent`, `LeaseCutOnlyByStalePoll`, `RosterSpec`, `LeaseEnds` |
| `outputs` | LCD: 2 callers, 2 rows; LEDs: 2 LEDs, states Off and Idle | `StaleRowsAreScheduled`, `NoLostWakeUp`, `ScreenSettles`; `StalePixelsAreScheduled`, `RegisteringBlinks` |
| `panel` | 1 slot, 1 key, 2 states | `NoGhostLed`, `DisplaySpec` |
| `daemon` | 3 sessions, 2 slots, 3 events, 1 fault | `SlotsAreOurs`, `CleanMeansShown`, `CommandsHitTheirOwner`, `PanelSettles` |
| `espnow` | 2 boards, one sends 1 command, the other echoes it; 1 retry, 1 beacon, 1 fault | `AcksAreHonest`, `DuplicatesAreBounded`, `PendingEnds` |
| `mqtt` | 3 connections (1 without keep-alive), 2 slots, 2 table entries; 1 published message and 4 other packets, 1 filter in a SUBSCRIBE | `SubscriptionsAreOwned`, `BrokerSpec`, `DeadClientsLeave`; `MatchIsRight` as an assumption that TLC evaluates |
| `keepalive` | ping after 2, drop after 6, 1 publish or subscribe between two packets that the client reads, 2 faults | `ConnectedMeansGreeted`, `KeepAliveSparesLiveLinks`, `ClientComesBack` |
| `inputs` | keyboard: 1 cell with a short and a long key, scan 1, debounce 2, long press 3, pause 2, motions -2 and 1, reports of 1, a buffer of 2; button: ring of 3, debounce 2 | `LastSentIsCurrent`, `MotionIsConserved`, `HostFollows`; `EventsAlternate`, `QueueSpec`, `PinIsFollowed` |
| `registry_lease` | 1 key, 2 slots, 3 ticks of lease, a clock of 6 ticks | `LeaseHonoured` fails |
| `daemon_start` | 2 hooks, 2 daemons, 1 retry | `OneDaemon` fails |
| `daemon_end` | 2 sessions, 2 slots | `SessionEndClears` fails |
| `keepalive_publisher` | up to 4 publishes between two packets that the client reads, no faults | `KeepAliveSparesLiveLinks` fails |

Each passing run also checks one type invariant, except `panel`, whose parts
have theirs; `OutputsTypeOK` and `InputsTypeOK` are the conjunctions of those of
their two parts.

**Why the bounds are enough.** Two slots and three keys make the table fill up,
be freed in another order than it was taken, and refuse someone. A lease of two
ticks on a clock of four has ages below, at and above the lease and wraps inside
one. One subscriber is enough for the registry because a subscriber is an index
there; `panel` has two. Two rows are the least where a batch outlives its first
row and a caller hits a row behind or before the drawing. `panel` needs one
slot: no callback and no task relates two slots. In `daemon`, one fault and
three events give a lost connection in any place of a round, slots kept by
their leases on the panel, and a third session that waits for one of two slots.
In `espnow` one board discovers the other, is answered, sends a command and
gets its echo: a DISCOVERY, a NODE_INFO, acknowledgements, the command and its
result meet in the two buffers, the command and the result each wait for an
acknowledgement, and one fault makes a frame lost or a retry early. Two boards
are the network `AcksAreHonest` is about; with three it fails (sections 5 and 6).
A second command, whose late acknowledgement of the first one meets it, and more
faults are not in the run; types and acknowledgements are proved for any number
of them. Three connections over two slots make each slot be
reused, two entries make the table fill up. A publish is counted apart from the
other packets the server reads: four of those let two clients be greeted and
both subscribe before a message goes to both, to one, or to none. A third
greeted client that subscribes, a SUBSCRIBE with two filters, a second message
and a client that changes its keep-alive with a second CONNECT are beyond the
run; the theorems allow them. So is a client whose packets never end, which
would keep `update()` in its slot: `DeadClientsLeave` holds of clients that pause.
Filters up to four symbols and
topics up to three hold every pair of separators and wildcards next to each
other. One cell is enough for the keyboard because cells meet only in the set of
keys that is sent: with one the set is empty, short or long, and changes at
every step of a pass; the debounce time spans two scans and the long press three,
motion exceeds a report and the buffer in both directions, and a pause is longer
than a scan. A ring of three is full, wraps, and overwrites while the contact
bounces. Two daemons are the least that can race. In `keepalive` the ratio of the code is kept (half and one and a half
keep-alives: `DropAfter` is 3 `PingAfter`), two faults are a break and a break
during recovery. Every bound of a behaviour (`MaxEvents`, `MaxFaults`,
`MaxCommands`, `MaxBeacons`, `MaxMessages`, `MaxPublished`, `Wishes`, `MaxPublishes`,
`AirCap`, `SocketCap`, `QueueCap`) is a constant and appears in a guard.

**Fairness.** A task of the code runs for ever, so weak fairness of its steps
is assumed: the BLE host task between a mutation and its callbacks, the
application loop, the display and LED tasks, the daemon's worker, the ESP-NOW
tasks, the `update()` loops, and time. Nothing is assumed of clients, hooks or
the network, with these exceptions:

- `outputs`, the LCD: an LCD that is tried again and again draws some day (SF of
  `DrawRow`); with an LCD that always fails nothing can settle.
- `outputs`, the LEDs: a wait that ends again and again has some day lasted a blink period
  (SF of `Flip`); a stream of notifications could postpone the timeout for ever.
- `inputs`, the keyboard: the scan task runs (WF of `Pass`); a host that is asked
  again and again is ready some day, and a report that is sent again and again
  gets through some day (SF of `Ready`, `SendMouse`, `SendKeys`). `HostFollows`
  concludes nothing when the link is down again and again or the keys move.
- `inputs`, the button: the application calls `update()` in its loop and time
  passes (WF of `Update` and `Tick`); nothing is assumed of the contact.
- `daemon`: the worker takes an event when there is one (SF of `Receive`, tokio's
  `select!` chooses at random); both ends notice a dead link; leases end.
- `mqtt`: a keep-alive runs out, and a server that was stopped is begun again.

Faults are bounded, so the liveness properties say what holds once faults have
stopped. `PanelSettles` has a condition: if for ever more sessions are known
than there are slots, the panel refuses one, and the daemon never rests (see
section 6).

Deadlock is checked where the system runs for ever, and not in `daemon`,
`daemon_end`, `daemon_start` and `espnow`, where behaviours end at their bounds.

## 5. What is proved

Every safety property a passing run checks is a theorem, and every refinement,
with one exception: `DuplicatesAreBounded` is checked by TLC alone. Its bound
counts one mixture on top of the transmissions of a packet; how many there can
be with several commands, or with packets of a third board in the buffer, is not
bounded by what is proved. Each theorem
holds for every value of the constants its module's assumption allows: every
number of slots up to eight, every set of keys, states, names and texts, every
lease and every clock that is longer than a lease and a poll gap
(`SlotsAssumption`, `RegistryAssumption`); every set of callers and rows
(`DisplayAssumption`); every number of LEDs up to eight (`LedAssumption`); the two
subscribers of the panel (`PanelAssumption`); every
number of sessions, each with a key of its own (`DaemonAssumption`); every set of
boards, and any bounds on retries, events, commands, beacons and faults
(`LinkAssumption`); every matrix, key map, timing and bound of motion
(`HidAssumption`); every ring capacity and debounce time (`RingAssumption`,
`ButtonAssumption`); every number of connections, slots, table entries and
filters (`ServerAssumption`); every timing of the MQTT connection in which a ping
comes no later than a drop (`MqttLinkAssumption`). Three theorems have
a hypothesis more: `AcksOfTwoAreHonest`, `KeepAliveSparesFewPublishers` and
`ServerIsBroker`, below. None assumes fairness.

| theorem | says |
|---|---|
| `TypeCorrect` | the registry keeps its types |
| `OwnersAreUnique` | a key never holds two slots |
| `FreedSlotsAreClean` | a free slot holds what a new one holds |
| `NewsStaysCurrent` | what the BLE host task is telling is still so, whatever the application task reaps meanwhile |
| `LeasesAreCutOnlyByStalePolls` | only a poll that read its clock before the lease began frees a slot early |
| `RegistryImplementsRoster` | the registry implements `SlotRoster` |
| `PanelContainsRegistry` | the panel does to the slots nothing that the registry alone could not |
| `NoGhostStaysLit` | the LEDs hold a slot for active only if it is in use, or they are about to be told otherwise |
| `PanelDrivesDisplay` | the panel and its display behave as `DisplayService` allows |
| `DisplayTypeCorrect` | the display keeps its types |
| `NoRowIsForgotten` | a row that shows something else than its slot is dirty, in the batch, or about to be told |
| `NoSnapshotIsForgotten` | an outdated copy of a slot that is about to be drawn will be drawn over |
| `NoWakeUpIsLost` | the display task never sleeps over a dirty row with no notification given or coming |
| `NoPixelIsForgotten` | an LED with an outdated colour is dirty, or its right colour is being flushed |
| `OutputsKeepTypes` | display and LED service, side by side, keep their types |
| `DaemonTypeCorrect` | worker, sessions, connection and panel keep their types |
| `SlotsBelongToSessions` | while both ends are connected, the slot the daemon holds for a session is that session's on the panel |
| `CleanSessionsAreShown` | a session the daemon takes for up to date is shown so |
| `CommandsStayWithTheirOwner` | no command changes the slot of a session it was not meant for |
| `LinkTypeCorrect` | tables, rings, buffers, jobs and frames of ESP-NOW keep their types |
| `AcksAnswerSomebody` | a number taken for acknowledged is one the other board was asked to acknowledge, by this board or by a third |
| `AcksOfTwoAreHonest` | between two boards it was this board |
| `MqttLinkTypeCorrect` | both ends of MQTT keep their types |
| `ConnectedIsGreeted` | a client that takes itself for connected over a link that works has a session |
| `KeepAliveSparesFewPublishers` | no keep-alive ends a link that works, if the client publishes little between two packets it reads |
| `ServerTypeCorrect` | the MQTT server keeps its types |
| `SubscribersAreTheirOwn` | an entry of the subscription table was subscribed over the connection that is in its slot now, after CONNECT, and is there once |
| `ServerIsBroker` | the server implements `MqttBroker`, if `topicMatches` finds what filters denote |
| `HidTypeCorrect` | keyboard, mouse buffer and transports keep their types and bounds |
| `SentIsWhatHostHas` | what a transport remembers as sent is what the host of this connection holds, but for reports it cannot know to be missed |
| `NoMotionIsLost` | motion queued is in the buffer, in the report in hand, or gone with a report |
| `RingIsAQueue` | the event ring implements `DropOldestQueue`, however it is used |
| `ButtonImplementsQueue` | so does the ring of a button |
| `PressesAlternate` | queued events alternate and the newest is the button's state |
| `InputsKeepTypes` | button and keyboard, side by side, keep their types |

**The registry** (`Panel_proofs`). The invariant `IInv` joins the types,
`GoodTable` (keys are unique, free slots are clean), `NewsWhileNotifying` and
`NewsIsCurrent`, and three facts about time. Time is needed because
`NewsIsCurrent` and the lease theorem rest on it: a slot that was just written is
active and cannot be reaped, and the wrapped difference of two counters is the
true age only as long as that age stays under `ClockMod`. `PollClockOK` and
`LinkClockOK` tie the counters both tasks have read to the ghosts,
`SlotClocksOK` does it for every leased slot. `GoodTable` is kept operation by
operation by the lemmas of `AgentSlots_proofs`, which know tables and no tasks
(and have the smallest slot of a mask, for the display);
`Panel_proofs` has one lemma per action. The refinement has one lemma per
action that is more than a stutter (`StartLeasesSuspends`,
`RegisterClaimsOrReclaims`, `UnregisterReleases`, `ReapEvicts`): uniqueness is what makes
a registration a Claim, and `GoodTable` what makes reaped slots suspended ones.

**The panel** (`Panel_proofs`). Each step of the panel is a step of the registry
or leaves it alone (`PanelStepsRegistry`), so `IInv` and all theorems of the
registry hold in it. `PanelInv` adds `NoGhostLed`, that the application task has
removals in hand exactly while it tells them (`AppTells`), and that LEDs are
active only for slots (`LedsAreTold`). `NoGhostLed` needs `NewsIsCurrent`: the
BLE host task lights an LED while the application task may have reaped
meanwhile, and only because what is told is still so does the light have an owner.
Refinement: a step of the registry that touches a slot is a `Change` of the
display's callers, telling the first subscriber is `MarkDirty` and `NotifyGive`.

**The display** (`Outputs_proofs`). None of the three properties is
inductive on its own: a row leaves the mask when the batch is taken, the batch
when it is drawn, and the caller when it has told. `DInv` adds that only a slot
that is being told is marked (`MarkedIsTelling`) and that there is a batch only
while rows are drawn (`BatchWhileDrawing`).

**The LEDs** (`Outputs_proofs`). A pixel that was dirty is in the frame while
the frame is flushed, so `StalePixelsAreScheduled` alone does not survive a flush
of a colour that went stale meanwhile. `LedInv` adds `StaleFrameIsScheduled` (such
an LED is dirty again) and that a frame exists only while it is flushed; steady
LEDs have one colour in both blink phases (`SteadyColor`).

**The daemon** (`AgentDaemon_proofs`). What the daemon believes of a slot was true when the
panel handled a command, so `DaemonInv` follows each command there and back:
`RequestInv` says of a command on its way that its slot stays its session's until it
is handled, and that it carries what the worker waits for; `ReplyInv` the same of
the answer; `TextShown` that between the two commands that show a session the
text is already there. `RoundInv` is the worker's round: sessions not
yet seen to, or removed, are dirty. Leases do not disturb it: they begin when the
panel loses its connection, which must come anew before the two are
linked again, and by then the daemon has forgotten its slots. `GoodTable` comes
from `AgentSlots_proofs`, as for the registry.

**ESP-NOW** (`EspNowLink_proofs`). The two tasks of a board share `m_txBuffer`,
and what leaves it can be a mixture of any two packets, also one kept for a
retry. What survives mixing is a statement about single fields: `Sendable(b)` are
the frames whose acknowledged number is 0 or one that board `b` was asked to
acknowledge, by whomever. A mixture of two such frames is one. So the buffer
(`BuffersWell`), the packets being sent (`JobsWell`), those kept (`NodesWell`) and
those in the air (`AirWell`) hold nothing else, and what is taken for acknowledged
was asked for (`AckedWell`); with the types this is the invariant `EspInv`.
`AcksAreHonest` is about two boards, and false of three: `AcksOfTwoAreHonest` has
the hypothesis that each board has at most one peer. What is left in every network
is `AcksAnswerSomebody`. Neither says that a command was handled; section 6 tells
how one is acknowledged and dropped, and how an acknowledgement goes astray.

**MQTT, both ends** (`MqttLink_proofs`). `ConnectedMeansGreeted` holds because a
client without a session has a CONNECT on the way and nothing else, and is not
connected (`GreetingIsSent`), and because a broken link carries nothing
(`OnlyWorkingCarries`). The keep-alive theorem has the hypothesis
`FewPublishes`: `(MaxPublishes + 1) * PingAfter < DropAfter`. `MaxPublishes` bounds
the calls of `publish()` and `subscribe()` between two packets that the client
reads, not those of a behaviour: a client may publish for ever, as long as it
leaves time for a PINGREQ and its answer in between. Each call puts the next
PINGREQ off by `PingAfter`, and may not be answered. With the code's ratio of three
the hypothesis allows one call between two packets, as in the run `keepalive`;
`keepalive_publisher` allows four, and two are already too many there. The
hypothesis is sufficient; calls in quick succession put the PINGREQ off by less
and it counts them as the worst. `AliveInv` bounds the silence each end hears:
`SendsInTime` and `ServerHears` for the server, `ClientHears` for the client.

**The MQTT server** (`MqttServer_proofs`). A slot is reused only after `Close` has
removed its entries, and entries are added only for the greeted client in the
slot: `ServerInv` adds that reading implies a connection in the slot
(`ReadsConnected`), adding a greeted one (`AddsGreeted`), and that a connection not
yet accepted is in no slot (`UnopenedIsDetached`), so that it gets one slot only.
`ServerIsBroker` has one lemma per kind of step. Two of them count: a slot
is free exactly while the broker serves fewer connections than it may (`FreeSlots`: each
connection has one slot), and an unused entry means the broker has room
(`FreeEntries`: no filter held takes two entries). Its hypothesis, that `Matches`
and `Denotes` agree on the filters and topics in use, is an induction over texts;
`MatchIsRight` has TLC evaluate it for all texts up to a length.

**The keyboard** (`Inputs_proofs`). `LastSentIsCurrent` speaks of a link that
is up; what makes it true happened before. `HidInv` extends it to the host that
has connected and not subscribed (`SentSinceConnect`), and goes back to the
disconnection: with the link down and no reset pending, nothing is remembered
and the task is not about to send (`DownMeansForgotten`). Motion is conserved
because it is in hand only until the mouse report is dealt with
(`MotionOnlyWithMouse`).

**The ring and the button** (`Inputs_proofs`). `Place` is where the k-th event lies;
the lemmas about it (`PlaceIndex`, `PlacesDiffer`, `PlaceAfter`, `HeadPlace`) are all
the arithmetic modulo the capacity there is. `PopInv`, `PushInv` and `PushFullInv`
state each operation as one on the queue; `RingIsConsistent` with the types is
inductive, and each step is a step of `DropOldestQueue`. Button steps are ring
steps or leave the ring alone, and a push happens only when the state changes,
which keeps the events alternating.

**Only model-checked**: liveness (`LeaseEnds`, `ScreenSettles`,
`RegisteringBlinks`, `PanelSettles`, `PendingEnds`, `DeadClientsLeave`, `ClientComesBack`,
`HostFollows`, `PinIsFollowed`), since fairness and ENABLED are beyond the
prover, and so is what recursive definitions compute for every input: the walk of
`TopicMatch`. The properties of section 6 are false and have
counterexamples.

## 6. Findings

- **`registry_lease`**: `reap` is given a time that was read before a
  disconnection on the other core began a lease; the unsigned difference wraps
  and every slot is freed at once (`AgentRegistry.h:216`,
  `BleAgentLightApp.h:141`). `LeaseCutOnlyByStalePoll` shows that nothing else
  cuts a lease.
- **`daemon_start`**: two hooks find no daemon and start one each. The second
  daemon probes the path between the `bind` and the `listen` of the first, is
  refused, and removes the file when the first serves already; it binds anew.
  Both serve, and the first is never reached again (`daemon.rs:56`). (Over the
  socket of a dead daemon the same happens without that narrow window: both find
  it silent, and the later one removes what the earlier one has bound. The run
  starts with no socket, so its trace is the former.)
- **`daemon_end`**: a session that ends in the round in which the abort of its
  last turn is found stays registered (`transcript.rs:9`, `session.rs:61`).
- **`keepalive_publisher`**: a client that publishes often never pings, hears
  nothing, and hangs up (`MqttClient.cpp:243`).

Modelled, but stated by no run:

- With three boards an acknowledgement can reach the wrong one. Both tasks encode into
  `m_txBuffer`: while the application task hands a HEARTBEAT or an answer to the driver, the WiFi
  task may have put an ACK for another board there, and `broadcast()` or `sendTo`
  sends that. `handleAck` compares nothing but the number (`EspNowNode.cpp:370`,
  `:534`), so a board that waits for the same number from the same sender
  takes its own command for acknowledged. `AcksOfTwoAreHonest` shows that two
  boards are safe from this, `AcksAnswerSomebody` what is left with more.
- Mixtures of two packets with a valid checksum (`EspNowProtocol.h:127`-`140`,
  `EspNowNode.cpp:534`), between two boards as well. A command sent with the type of
  an ACK, its own number and NEED_ACK is acknowledged (`EspNowNode.cpp:309`) and
  never handled. What is kept for retries can be a mixture: the retries then carry
  another number or ask for nothing, and the sender waits for a number no frame
  carried, until it marks the node ERROR, although the command may have been handled.
- An acknowledgement that arrives between the time-out test and the give-up does
  not keep the node from being marked ERROR (`EspNowNode.cpp:462`); the next packet
  heard from it corrects that.
- A command is acknowledged before it is queued, and a full ring drops its oldest
  event: an acknowledged command may never be executed (`EspNowNode.cpp:662`).
- A removal that the application task tells after a new agent has registered in
  the freed slot clears the active bit of the new agent's LED
  (`AgentRegistry.h:225`), which stays dark until it registers again.
- `setConnected(false)` with a stale value reaches the LEDs after the agent has
  registered over the new connection: its active bit is cleared and no later
  event but a registration sets it (`BleAgentLightApp.h:143`,
  `Ws2812Service.h:115`).
- A refusal with NO_FREE_SLOT is an error like any other: the daemon disconnects,
  forgets the slots of all sessions and tries again on the next tick
  (`daemon.rs:103`); while too many sessions are open, this goes on, and the
  removal of an ended session may never be reached.
- A button in interrupt mode reports a clean edge late, with the next one: the
  first look at a changed level only starts the debounce time, and without
  another interrupt there is no second look (`Button.cpp:49`). `PinIsFollowed`
  promises the state of polled buttons only.
- A report the host missed is not sent again until it changes: over BLE one that
  is notified before the host has subscribed, over USB one that `SendReport` gave
  up on, or that went to a host that has left and come back between two
  `ready()`s (`BleHidNkroKeyboardMouse.cpp:86`, `NkroKeyboard.cpp:209`). The
  properties excuse exactly these (`unseen`).
- After a pause the scanner credits the whole pause as time a contact was closed,
  so one look can pass the debounce time (`NkroKeyboardScanner.h:118`).
- SUBACK grants a filter that a full table refused (`MqttServer.cpp:669`;
  `docs/mqtt-server-design.md:950` wants it refused).

Not modelled, as nothing calls it: the BLE transport keeps `m_mouseBtn` over a
reconnection, where the tutorial clears it
(`BleHidNkroKeyboardMouse.cpp:151`, `docs/tutorial/BleHid/PRTS-BleHid.typ:378`); only
`moveMouse` and `setMouseBtn` read it.

## 7. Not modelled

- Drivers, wrappers and the two LCD/LED libraries: register and pixel I/O;
  they appear as calls that succeed or fail.
- `fw:alg`: floating-point numerics.
- `Result`/`ErrorSet`: types, checked by the compiler.
- The serial TUI, the command line of the host client, scripts, configuration
  and examples: no state that outlives a call, or constants.
- HID: setup and `end()`, feature reports and keyboard LEDs, consumer and system
  controls, and the calls nobody makes (`setKey`, `moveMouse`, `setMouseBtn`,
  `press`, `release`). `KeyBoard4x5` is included nowhere.
- WiFi manager and serial console: planned (section 2).
- Bytes: frames, packets and texts are values. Where a codec decides control
  (a refused frame, a garbled packet, a topic filter) that decision is modelled.
- That the LEDs may stay dark after a fast reconnection (`BleAgentLightApp.h:143`)
  or a late removal is in `Panel`'s behaviours, and no property excludes it. The
  comment at `Ws2812Service.h:115` comes close to one: after a reconnection all LEDs
  are dark first, and register and state events of the agents bring them back
  slot by slot. In the code a register event does, a state event does not.

The repository has 559,282 lines, of which 537,640 are the pixels of the boot
animation (`fw:app/assets/boot-anim.h`): data without behaviour. Of the remaining
21,642, most are drivers, wrappers, the `Result` library, numerics and terminal
I/O, listed above; a share of the whole that a model could reach is therefore
small however much of the logic is modelled.
