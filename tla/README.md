# A TLA+ model of iron_v

iron_v is bare-metal firmware for the ESP32-C6: one RISC-V core, no operating
system, a vendor Wi-Fi library called through an adapter, and around it a
network stack, an HTTP server, an MQTT client, persistent settings and firmware
slots. This directory models the parts of it whose correctness depends on an
order of events that a host test hardly produces: interrupts between two
accesses to a ring, a power loss between an erase and a write, segments that
arrive twice, a deadline that is overwritten on one path.

Every definition is a translation of the code; `PROJECT.json` maps each one to
the lines it stands for. Paths below are relative to `src/src/` unless they
begin with another directory.

## 1. The system

### How it runs

There is one core. After boot, `main.c` runs one endless loop (lines 158-203)
that calls, in this order: the watchdog tick, `dpc_process_all`, the ticks of
TCP and the DHCP client, the button, `provisioning_tick`, the ticks of mDNS, the
modules (MQTT, light) and NVS, the Wi-Fi adapter's poll (software timers and
received frames), the shell, and `task_yield` (the vendor library's tasks, run
cooperatively until they yield). Interrupt handlers run
between any two instructions of this loop while `mstatus.MIE` is set; they do
little and hand the rest over through the DPC queue. There is no preemption
among tasks and none among handlers. Three kinds of concurrency follow:

* an interrupt handler against the thread (DPC, receive rings, software timers);
* a *callback inside a call*: `tcp_input` calls `recv_cb`, which may close,
  abort or open connections; a vendor task posts an event while another call
  waits for it;
* the board against its environment: the network, the access point, the
  flash, the power supply, the second (LP) core.

### Components

| Component | Files | State it keeps | Operations that change it | What makes it correct |
|---|---|---|---|---|
| DPC engine | `dpc.c`, `interrupt.c`, `timer.c` | ring of events, two free-running indices, drop and processed counters | enqueue (ISR or thread), process, process all | a FIFO under any interleaving; every accepted event reaches its handler; a full ring refuses |
| OTA selection | `ota.c` | two flash records, cached records, active slot/state/number, boot attempts | init, switch, mark valid, rollback, erase/write slot, snapshot/restore | a power loss anywhere leaves the old or the new selection; an unconfirmed image is rolled back |
| NVS | `nvs.c`, `flash_rom.c` | cached entries, one flash sector, dirty mark and its age, CRC of the stored image | init, set, erase, erase all, commit, tick, snapshot/restore | one value per key; what is committed is stored; a pending change is written in bounded time |
| TCP engine | `tcp.c` | eight connection slots, each a TCP control block with its send buffer | input, tick, connect, listen, write, close, abort | bytes arrive once, in order; nothing outstanding is left without a timer |
| Provisioning and Wi-Fi link | `provisioning.c`, `wifi_link.c`, `wifi.c` | credentials, join state machine, setup mode, link back-off, station and SoftAP of the driver | button, web configuration, tick, driver events | a failed attempt restores what worked; joins go on; SoftAP only when it should be up |
| DHCP client | `dhcp.c` | state, lease with T1 and T2, transaction, retry times | start, stop, forget, tick, packet in | an address is used only while leased; an exchange ends; the SoftAP's address is left alone |
| WPA2 supplicant | `wpa2_client.c`, `wpa_ie.c` | handshake state, keys, M4 pending, replay counter | EAPOL in, TX done, connect, reset | keys installed once, after M4 has arrived; losses are tolerated |
| HTTP server | `http_server.c`, `api_v1.c` | request slots that point into the connection table | accept, receive, start, stop | a request is served once, from its own bytes |
| MQTT client | `modules/mqtt/*` | connection slot, state, back-off, settings to come | tick, receive, error, set config | it uses only a slot that is still its own; no slot is left without an owner |
| Wi-Fi OS adapter | `wifi_os_adapter.c` | mutexes, semaphores, queues, event groups, timers | the vendor's OS calls, poll | waits end; a timer cancelled does not fire |
| Cooperative tasks | `task.c`, `task_switch.S` | task slots, current index | create, yield, exit, terminate | every ready task runs; an ended one never does |
| Static arena | `arena.c` | pool free lists, scratch marks | alloc, free, mark, release | blocks handed out are disjoint |
| Watchdog supervisor | `wdt.c` | feed times | feed, tick | a stuck loop resets the board |
| LP core and power | `lp_core.c`, `power.c`, `lp_core/main.c` | shared mailbox, command and sequence | send, acknowledge, sleep | an acknowledge answers the command that waits |
| Button | `button.c` | debounced level, press time | tick | one event per press |
| UART, USB console | `console.c`, `uart.c`, `usb_serial.c` | receive rings | ISR push, thread pop | nothing lost unless counted |
| Network layer | `net.c` | ARP table, own address | input, output, set IP | replies match requests |
| DNS and DHCP server | `dhcp.c` | lease table of the SoftAP | packet in | an address has one holder |
| mDNS, modules, light | `mdns.c`, `module.c`, `modules/light/*` | announcement timer, light state | tick, packet in | - |
| Boot, main loop | `main.c`, `crt0.S`, `looptime.c` | none of its own | the loop | every tick is called on every turn |
| Drivers, traps, PMP, panic | `gpio.c` ... `panic.c` | device registers | straight-line | - |
| Shell, JSON, strings, statistics | `shell.c`, `json_lite.c`, `string.c`, ... | none | formatting and parsing | - |

Interactions: interrupt handlers call `dpc_enqueue_event`; the DPC handlers run
in the loop and may enqueue again. Provisioning drives `wifi.c`, which drives
the vendor library through the adapter; the library posts events that `wifi.c`
handles in the task that yields, and those start or stop the DHCP client. The
HTTP server, the MQTT client and the speed test share the eight TCP slots and
are called back by `tcp_input` and `tcp_tick`. Provisioning, MQTT, the light and
the shell store settings in NVS, which commits them only while the commit gate
(`prov` idle) is open, or after a maximum time. The self-test takes snapshots of
NVS and OTA state and puts them back. Everything that waits feeds the watchdog.

### What is hard

The list with lines is `hazards` in `PROJECT.json`. In short: producers of
different priority on a single-producer ring; free-running indices and sequence
numbers that wrap; flash that is erased before it is written; results of flash
calls that are ignored; a selection that changes while the processor executes
from what it named; a timer set and cleared on eight paths; callbacks that free
the object their caller is using; slots reached through a pointer after another
user took them; TX-done reports that arrive late; settings stored in several
steps that can fail in between.

## 2. Plan

The order follows what would hurt most: first what every event passes through
and what a power loss can destroy, then the connections, then what sits on them.

| Step | Modules | Composes | Abstract specification | Question |
|---|---|---|---|---|
| 1 done | `DpcFifo`, `Dpc`, `DpcProofs` | interrupts, thread, ring | `DpcFifo` | is the ring a FIFO under any interleaving? |
| 2 done | `Ota` | selection, flash, power, boot | - | does the selection survive? |
| 3 done | `Nvs` | cache, sector, gate, power | - | is what is committed stored? |
| 4 done | `Tcp` | two engines and a network | - | is the stream intact? |
| 5 done | `Station` | provisioning, link, driver events, button, portal, commit gate | - | do joins go on, do credentials that worked come back? |
| 6 done | `Wpa2` | supplicant, access point, lossy air, TX-done reports | - | are keys installed once, and only when both sides have them? |
| 7 done | `Dhcp` | client, server, lossy network, link, setup mode, clock | - | is an address used only while leased? |
| 8 done | `Slots` | TCP slot table, HTTP request slots, MQTT client, callbacks | - | who owns a connection slot, and what a request is served from? |
| 9 done | `OtaProofs`, `NvsProofs`, `Wpa2Proofs`, `DhcpProofs`, `SlotsProofs`, `StationProofs`, `TcpProofs` | - | - | the safety invariants for every bound |
| 10 | `Arena`, `ArenaProofs` | pools and scratch | a set of disjoint blocks | disjointness, by proof |
| 11 | `Kernel` | tasks, adapter timers, semaphores, poll guard, watchdog | - | do waits end? |

Every invariant that a passing run checks is stated by a theorem. `Arena` comes
with its proof, that blocks handed out are disjoint.
`Kernel` comes last because most of what could go wrong there depends on when
the vendor library, which is closed, waits and yields.

## 3. The modules and the code

### `DpcFifo`, `Dpc`: the DPC engine (`dpc.c`)

`Dpc` takes the accesses of `dpc_queue_enqueue` and `dpc_queue_dequeue` to
shared memory one by one, in the order the fences of the code keep. The thread
is one context, each interrupt handler another; `running` says who has the core
and `mie` whether an interrupt may be taken. `SaveAndDisable`, `CheckFull` or
`CheckRoom`, `Store`, `Publish`, `Restore` are `dpc_enqueue_event` in the thread;
an interrupt enters at `TakeInterrupt` (the trap clears MIE) and leaves at
`ReturnFromInterrupt`. `SeeEvent`, `LoadSlot`, `Advance`, `HandlerReturns` are
`dpc_process`; between `Advance` and `HandlerReturns` the handler runs and may
enqueue. The indices are numbers modulo `Capacity * Wraps`, which stands for
2^32 and is, as in the code, a multiple of the capacity. An event's fields are
one value: nothing in the engine looks into it, and `NoTornRead` states that the
copy is never taken from a slot being filled. `DpcFifo` is the promise: a
bounded queue, an event whose handler runs, and two counters.

### `Ota`: firmware selection (`ota.c`)

`flash` is what the two sectors hold, a record or `Blank` for anything that
fails its CRC. RAM is `records`, `active` (slot, state and number) and `sector`;
`todo` and `erased` say where the running `write_select_record` is, so that
`PowerLoss` falls before, during or after each flash call. The calls
(`SwitchSlot`, `MarkValid`, `Rollback`, `SnapshotRestore`) write the cached
record first and their other results when the last flash call has returned, as
the code does; `FailSector` is a flash call that reports an error, which the
code ignores. `Boot` and `ReInit` are `ota_init` with its decision (factory
record, automatic rollback) and its ignored read errors. `image` is what the two
slots' flash holds, for `ota_erase_slot` and `ota_write_chunk`; `RunningSlot` is
the slot `mmu.c` maps for execution.

### `Nvs`: settings (`nvs.c`)

An entry is a key, a value and the value its CRC was computed for, so that
decayed and torn entries are what fails the check. `cache`, `flash_crc`, `dirty`
and `held` are the static variables; `flash_crc` is the sequence of entry CRCs
instead of a CRC over them. `flush_cache_to_flash` is three flash calls
(`EraseSector`, `WriteHeader`, `WriteEntries`), each with its failing variant;
`PowerLoss` leaves any number of entries programmed. `Boot` makes as many
entries active as are good, from the front, and stores the incremented boot
counter, or formats the sector. `Tick(busy)` is `nvs_tick` with the commit gate
closed or open.

### `Tcp`: the TCP engine (`tcp.c`)

Two endpoints run the same handlers. Each handler is one action, from the first
check to the flush at the end of `tcp_input`. Inside it, `Output` is the loop of
`tcp_output`: `Turn` is one turn, on a working record of the control block, the
frames the driver took and how many more it takes (`room`), and `Turns` repeats
it; each turn sends a byte or the FIN or changes nothing, so one turn more than
there are bytes is enough. The network keeps every
segment ever sent and may deliver each now, again, or never: this is loss,
duplication and reordering at once. Time is abstract: a running timer may fire
at any moment, and what the deadline was set for ("rto" or "retry") is kept. An
application may take new bytes, answer from inside `recv_cb` if
`tcp_sndbuf_space` has room for the answer, abort in it, or refuse them
(`NET_ERR_BUSY`).

Abstractions: one connection slot per endpoint (the table of eight and its
recycling are in `Slots`); no ports, checksums or RTT estimate; the three
retry limits are one constant; a control segment the driver refuses is one the
network lost; `accept_cb` and writes from another connection's callback are left
out; segments for an endpoint that can no longer open are dropped.

### `Station`: getting onto a network (`provisioning.c`, `wifi_link.c`, `wifi.c`)

`board` is one record with the static variables of the three files and the keys
in the NVS cache; `radio` is the vendor library: the SoftAP, the credentials it
is associated with or trying, a disconnect event on its way, and whether the
remembered access point has gone. `stored` and `overdue` are the NVS sector and
the commit gate's maximum hold. The functions of the code are operators from a
pair of both to the next pair, composed in the code's order: `StartAp`,
`StopAp`, `LeaveCurrent`, `StaBegin`, `TakeOver`, ... with the events the
library posts while they wait; `JoinBegin`, `AttemptFailed`, `JoinSucceeded`;
`SetupOpen`, `SetupClose`, `SetupTick`. An action is a call of
`provisioning_tick` in one of its states, always ended by `prov_setup_tick`
(`EndTick`); a POST of the portal (`Configure`, or `ConfigureFails` when the
store has no room for the second key); the button; a commit; a reset; or an
event: `Associate`, `Refuse`, `SupplicantFails`, `LinkLost`, `LeaveReported`.
The disconnect counter is compared for equality only, so `lost` is the
comparison; setting the base clears it.

Abstractions: a name with its passphrase is one value, and `Stripped` is the
same name without the passphrase. Time is abstract: a deadline may pass at any
tick. Two delays are relied on: the event of an association left on purpose
arrives before the next join call (a portal join waits one second, a retry at
least 0.8 s), and a started station or SoftAP reports so within its timeout. The
library may end its attempt at a disconnect or go on trying by itself, as the
comment at `prov_supplicant_failed` says. The credentials a board boots with
have worked, or there are none. What the library did is kept as history apart
from what the board believes: `tested` holds the credentials it associated with,
`overlaid` those whose join began over a live association, where the board takes
the old connection for theirs. `FailedKeepsWhatWorked` excepts the latter by name.

### `Wpa2`: the four-way handshake (`wpa2_client.c`)

`sta` holds the static variables of the supplicant, `driver` the keys the
library uses, every pairwise key ever set, and which of the last keys it
refused. `RxM1`, `RxM3` and `RxG1` are the
three message handlers behind the checks of `wpa2_client_rx_eapol` (`Passes`);
`RxRefused` is a frame those checks stop, which may already have moved the
replay counter. Each answer is taken by the driver or refused. The radio sends
it later (`Transmit`) and reports it later still (`TxReport`); the report may
say less than what happened (arrived but not acknowledged) or more
(acknowledged but dropped inside the access point), and it may outlive its
handshake: `Disconnected`, `LinkLost` and `ApRekeys` keep the reports on their
way and only mark them `old` (`Aged`), which no code sees. `InstallGroup` and
`Installed` set a key or have it refused, after which the state is
`AUTHENTICATED` all the same. `Join` is possible in every state: without an
association it is followed by one; over a live one (`wifi.c:1615`, or before the
disconnect has been handled) the state becomes `CONNECTING` and the session, its
keys and its frames go on. The access point is
external: it repeats an unanswered message, gives up after `MaxTries`
transmissions, rekeys, and may begin a group rekey before the station has seen
its last report.

Four properties of the handshake hold but for something the code lets happen.
The exceptions are part of the properties, as history or as driver state, and
each is needed: TLC violates the property without it.

| Property | Exception |
|---|---|
| `NoKeyReinstalled` | a join came over the association (`over` in the log) |
| `KeysFollowM4` | the key was set on the late report of an earlier handshake's M4 (`stale`) |
| `AuthenticatedMeansAgreed` | the driver refused the key (`refused`), or `stale` |
| `TroubleIsTolerated` | `over`; and a station that waits for the report of its M4 |

Abstractions: cryptography is ideal. A pairwise key is the tuple of what it is
derived from (the passphrase is right or not, ANonce, SNonce), a MIC is the key
it was made with, and the key data are the group key and whether the RSN element
is the one of the beacons. Parsing and lengths are left out. Losses, refused
answers, early repetitions, false reports and joins over an association share
the budget `MaxTrouble`; refused keys, late reports and losses of the link are
free. Of the radio it is assumed that a frame dropped at a disconnect is not
reported, and of the access point that it renews the pairwise key only when no
frame of the last exchange is in the air.

### `Dhcp`: the DHCP client (`dhcp.c`)

`c` is the client's telemetry and lease variables, `net` the board's address.
Times are what is left of them: `t1`, `t2`, `end` and `next` count down with
`Clock`, `age` counts up from the first REQUEST, and a value is zero where the
code does not read it. `Clock` moves only after a tick that saw the client as it
is now (`ticked`), since the main loop turns many times in a unit. `TickExpired`, `TickDue`, `TickGivesUp`, `TickIdle`
are `dhcp_client_tick` by its early returns; `RxOffer`, `RxAck`, `RxNak` are
`dhcp_client_process_packet`; `LinkUp`, `LinkDown`, `RequestJoin`,
`Rejoin`, `SetupOpen`, `SetupClose`, `PortalJoin` are its callers in `wifi.c`,
`wpa2_client.c` and `provisioning.c`. `LinkDown` stops the client and leaves the
address alone, as the event handler does; `Rejoin`, the call of
`wpa2_client_join`, clears it. Between the two (`retry`) the library may
associate again by itself, `LinkUp`, and then the old address is in use without
anybody having confirmed it: this is the window that `AddressIsLeased` names. A
transaction number is reduced to
`current`: a new one makes everything under way belong to an older exchange.

The server is external and keeps its word: an address has one owner until its
lease ends. It may be silent, late, repeat itself, say NAK, forget everything
when the station comes to another network, and send T1 and T2 in any order.

### `Slots`: who owns a connection (`tcp.c`, `http_server.c`, `mqtt.c`)

`pcb` is the table, `slot` the HTTP request slots, `mqtt` the MQTT client. New
slots are found as `tcp_new` finds them: a free one, one in TIME_WAIT, or an
idle one whose connection is aborted. Segments without data (`RxSyn`,
`RxHandshake`, `RxAck`, `RxFin`, `RxRst`), timers (`TimesOut`), a request that
comes in parts (`RxPart`, `RxLast`) and the MQTT client's tick, by state, are
the actions. Bytes in a request slot carry no connection in the code; the model
marks as `foreign` what came over an earlier connection, as history, so that
`ServedOnceFromItsOwn` can tell. `SelfTest` is the self-test that initialises
the stack under a running MQTT client.

Abstractions: `FIN_WAIT` stands for the four states between our close and both
FINs acknowledged, `WAITING` for the three MQTT states without a connection.
Send buffers are counted in units of which a response needs one or two; `used`
is the pool's own count, which `TypeOK` compares with the units the connections
hold (`Units`).
Sequence numbers and retransmission are in `Tcp`. A response too large for a
whole buffer takes the path of a POST; a request that finds no request slot is
deferred, which changes nothing; a failure of the scratch arena and a second
request sent before the answer to the first are left out.

## 4. What is checked

| Run | Instance | What it shows |
|---|---|---|
| `dpc` | two events, one handler, ring of 2, indices modulo 4 | the ring refines `DpcFifo`; one producer at a time; no torn read; never overfull; accepted events are handled |
| `ota` | sequence numbers up to 5, one flash fault or self-test restore | a power loss at any point leaves the confirmed selection or the one being written; what was reported is durable; the ruling record is never erased; the cache is coherent |
| `ota_auto_rollback` | the same | **violated**: an unconfirmed image is booted for ever (finding) |
| `ota_running_slot` | the same | **violated**: after a switch the slot that executes can be erased (finding) |
| `nvs` | boot counter and two keys, two entries, values 0 and 1, hold of one tick, one fault | one entry per key; committed is stored; a crash leaves a front part of the last image; a pending change is committed |
| `nvs_verified` | the same | **violated**: a decayed entry is served (finding) |
| `tcp` | sequence numbers modulo 16 from 14, segments of 2 bytes, windows 0 and 2, one retry, one refusal, up to three connections | the stream is intact; a quiet end means delivered; whatever is outstanding is timed; the send pointers are ordered |
| `station` | good, mistyped and passphrase-less credentials, two fast attempts, one doubling of the backoff, two troubles | never silent for good; the SoftAP is up only with a reason; a failed portal join keeps what associated, or what was joined over an association; a lost link is noticed; online means an address is asked for and the SoftAP is down; good credentials lead online |
| `station_unproven` | the same, no trouble | **violated**: credentials that never joined become permanent when setup mode closes during their join (finding) |
| `wpa2` | three nonces and three group keys of the access point, three transmissions of a message, two troubles | no key is set twice; keys are used only after the access point had the M4 for them; `AUTHENTICATED` means both sides agree; fewer losses than transmissions cost no association (each but for the exceptions of section 3) |
| `dhcp` | two addresses, a lease of three units, two messages under way, T1 too late and T2 absent | an associated station uses only what is leased to it, but for the window after a loss; the SoftAP's address stays; every exchange ends |
| `slots` | three connection slots, two request slots, two HTTP clients, a broker, a pool of three units | requests are served once and from their own bytes; slots without a timer have an owner; the pool is given back |

### Bounds, and why they are enough

* `dpc`: with two slots and indices modulo four, the ring is empty, half full
  and full at every phase of the wrap; two events tell an exchange from a loss.
  One handler suffices because handlers do not nest. The theorems of section 5
  remove these bounds.
* `ota`: five numbers allow upgrade, confirmation, second upgrade and rollback,
  in both sectors. One disturbance per behaviour (`clean`) because after two
  independent flash faults nothing is promised; power losses are unbounded.
  Three test boots is the code's own constant.
* `nvs`: three keys compete for two entries, so the full store is reached; two
  values tell old from new; the hold of one tick separates a change just seen, a
  change held and a change over time.
* `tcp`: the client's numbers start two below the wrap, so the SYN, the data and
  the FIN cross it. Two bytes in segments of two can be sent whole, in parts
  (window or congestion) and again in other pieces. A behaviour draws one of
  three budgets, since together they do not end in reasonable time: a refusal
  and a resend; a resend with zero windows; a third connection over the
  segments of the first two. The initial numbers of an endpoint are further apart
  than its bytes (`Apart`, section 5). `CHECK_DEADLOCK` is off because a system whose
  connections are closed and whose budget is spent stops.
* `station`: two troubles, drawn from link losses (with or without the access
  point moving), failures without cause, resets and a full store, let a second
  one fall into the recovery from the first. The fast path's limit of two is the
  code's; one doubling reaches the cap of the backoff and stays there. Portal
  requests, button presses and commits are not bounded.
* `wpa2`: three nonces allow a join that fails, one that succeeds and a pairwise
  rekey, so that a report can meet the handshake after its own and the one after
  that; three group keys allow a rekey repeated and one that follows it. Three
  transmissions are one more than the troubles, so that the last one gets
  through; two troubles let a join come over an association and a frame be lost. `CHECK_DEADLOCK` is off: when the nonces are used up the model ends.
* `dhcp`: in a lease of three units with T1 of the server at the end and no T2,
  `dhcp_client_bind` puts T2 at 2 and T1 at 1, so renewing,
  rebinding and expiry are a unit apart. Two tries and two messages let an answer to the first REQUEST come
  after the second. Jitter is zero: it shifts the same retry by a part of a unit.
* `slots`: with the listener there are two connection slots for two HTTP clients
  and the MQTT client, so that each of them takes a slot another one had; two
  request slots and requests of one or two segments let a request be reclaimed
  half-way. The pool of three units runs out with two connections.

### Fairness

* `Dpc`: an interrupt handler that runs goes on and returns (it has no loop),
  and a thread step that is possible again and again is taken: the thread gets
  the core between interrupts, whose only enqueuing source (`timer.c`) fires
  every few seconds. That is weak fairness for enqueue and return, strong
  fairness for the four consumer steps. Nothing is assumed of which events come.
* `Nvs`: `nvs_tick` is called on every turn of the main loop (weak fairness of
  `Tick`, whatever the gate answers) and a flash call that has begun ends.
* `Station`: the main loop calls `provisioning_tick` on every turn (weak fairness
  of `Tick`), and an event on its way arrives. A network that accepts the
  credentials and is tried again and again answers once, and no user for ever
  sends new credentials just before the tick that would see the connection:
  strong fairness of `Associate` and `TickJoined`, since failures, the button
  and new requests can disable both in between. Without the first no program
  could promise to get online.
* `Dhcp`: the main loop calls `dhcp_client_tick` and `provisioning_tick` on every
  turn (weak fairness of `Tick` and `Rejoin`), and time passes (`Clock`). Nothing
  is assumed of the server, the network or the link.
* `Ota`, `Tcp`, `Wpa2`, `Slots`: safety only, no fairness.

### Observed while modelling, without a run of their own

* `write_select_record` (`ota.c:274-278`) returns `OTA_OK` also when the erase or
  the write failed. `ReportedIsDurable` is therefore stated for sound flash.
* `ota_snapshot_restore` rewrites both sectors one after the other; a power loss
  in between leaves a pair of records no other operation produces.
* The store has one sector, erased before it is written: a power loss between
  the two loses all entries. `CrashLeavesPrefix` says exactly what remains.
* A POST during the hand-over, or between `STA_CONNECTED` and the tick, asks for a
  portal join while the station is associated. `wifi_sta_begin` leaves the
  association only without `keep_ap` (`wifi.c:1615`), although the library then
  refuses to connect (`wifi.c:1540`), and `wpa2_client_join` ignores the result
  of the start: the next tick takes the old connection for the success of the
  new credentials and clears their `unproven` mark. If the link is then lost
  before the hand-over ends, the portal join has failed with credentials that
  never joined, and nothing restores the earlier ones.
* The same join puts the supplicant in `CONNECTING` over an association whose
  session it keeps (`wpa2_client.c:1410`). A repeated M3 is then taken for a
  first one (`:1024`): its report has the same pairwise key set again (`:1199`),
  which the comment at `:1023` means to prevent. And every group message is
  refused (`:1160`), so the access point gives up without a single loss.
* After a loss of the link the board keeps its address until it joins again
  (`wifi.c:425-446` stops the client, `wpa2_client_join` clears the address). A
  reassociation by the library itself, which `prov_supplicant_failed` reckons
  with, uses the address unconfirmed, perhaps on another network, until an ACK, a
  NAK, the give-up or the join. A lease that ends while the client is idle is
  dropped without clearing the address (`dhcp_client_drop_lease`, `dhcp.c:935`),
  although the comment of the tick says that it must not be used any more.
* A POST over the LAN has no SoftAP to keep, so its join is not a portal join:
  new credentials that fail are retried for ever and nothing is restored.
* `provisioning_set_credentials` stores two keys. When the store is full after
  the name, the call reports failure and the name is kept without its passphrase.
* A failed erase in `flush_cache_to_flash` ends with `NVS_OK` and a clean mark.
* When the driver refuses a retransmission, `tcp_tx_blocked` (`tcp.c:350`) asks
  for a short retry, and `tcp_on_rto` (`tcp.c:1293`) then arms its own, doubled
  timeout over it: the segment goes out, but later than the first call meant.
* TX-done reports carry no sign of the message they are for
  (`wpa2_client.c:1187-1191`), and nothing discards those of an association that
  has ended. A late good report of an earlier M4 has the key installed before its
  own M4 is sent, against the comment at `:1168`. A late or
  false failure report, or a second M4 the
  driver refuses, makes the own report count for nothing and
  leaves the station in `M3_RECEIVED` or `M4_SENT` although the
  access point is done. During a join the provisioning deadline recovers; after a
  pairwise rekey nothing in the supplicant notices. `TroubleIsTolerated` names
  exactly this exception.
* A key the library refuses is only logged (`:920`, `:937`): the state is
  `AUTHENTICATED` all the same. A refused group key is stored before it is set
  (`:1064`), so the access point's repetition does not try again.
* A request slot is reclaimed when its connection slot is no longer established
  (`http_server.c:680`). If the MQTT client has that connection slot, it stays
  established as long as that is online, and the request slot stays taken; every
  further use starts from an emptied slot, so no bytes are mixed up.
* A request sent before the answer to the one before is processed on a closed
  connection and gets no reply; a segment for no connection gets no RST.
* `mqtt_set_config` stores five keys one by one (`mqtt.c:940`): when the store is
  full in between, old and new settings are mixed and the call reports failure.
* The DHCP server of the SoftAP (`dhcp.c:162-217`) is commented as recycling the
  oldest lease and takes the first one always; the time of a lease is not kept.
* A timer callback of the adapter runs inside the poll of whichever task waits
  (`wifi_os_adapter.c:1110-1154`). It passes a recursive mutex that task holds,
  would spin on one that is not recursive, and while it waits itself no other
  poll does anything. Received frames are taken in `main.c:189` and released
  after `net_input`; the models of the stack assume that sending does not yield.
* The LP core clears the command after it acknowledged it
  (`lp_core/main.c:150-185`): a command written right after the acknowledgement
  can be wiped, and a late acknowledgement of an equal command counts for it.

## 5. What is proved

Each `*Proofs` module has the same shape: an invariant `IInv`, lemmas about the
operators of the model, one lemma per action that keeps `IInv`, `Invariance`
(`Spec => []IInv`), and one theorem for each property that follows from it. `IInv`
was checked by TLC on the instance of section 4 before it was proved. The
constants are arbitrary; what is assumed of them are the named assumptions of
the modules, quoted below. `PROJECT.json` lists the theorems.

### `DpcProofs`

For every capacity, every number of handlers and events and every index width
that is a multiple (at least two) of the capacity:

* `Invariance`: `IInv` conjoins `TypeOK` with
  `ProducerInv` (MIE is set exactly while the thread is outside an enqueue; a
  context inside an enqueue has the core; the head it read is still the head and
  there is still room; at the publication the slot holds its event),
  `ConsumerInv` (between the test and the advance there is an event at `tail`,
  and the copy is that event) and `RingInv` (the indices claim at most
  `Capacity` slots and each of them holds an event). None of the properties is
  inductive alone: that a publication does not overfill the ring needs the
  check's answer to be still valid, which needs the mutual exclusion, which
  needs the value of MIE to be tied to the program counters.
* `TypeCorrect`, `Capacitated`, `Arbitration`, `Untorn`: `TypeOK`,
  `NeverOverfull`, `SingleProducer`, `NoTornRead` follow from it. `Untorn` needs
  arithmetic: two indices less than `Capacity` apart name different slots, also
  across the wrap, because the capacity divides the modulus.
* `Refinement`: `Dpc` implements `DpcFifo`. `Publish` appends to the abstract
  queue, `CheckFull` is a refusal, `Advance` begins a handler, `HandlerReturns`
  finishes it, every other step stutters.

The assumptions: a positive capacity, at least two wraps, the thread is not a
handler, `NoEvent` is not an event. They are what `dpc.h` guarantees
(`DPC_QUEUE_CAPACITY` is a power of two far below 2^32).

### `OtaProofs`

For every bound on the sequence numbers (positive) and every limit on test
boots: `Survival` (`SelectionSurvives`), `Durability` (`ReportedIsDurable`),
`Coherence` (`CacheCoherent`), the action property `RulingKept`
(`RulingRecordKept`) and `TypeCorrect`.

`SelectionSurvives` speaks of the flash alone and is not inductive: whether the
next flash call destroys the selection depends on what the call that began the
rewrite has left in RAM. `RamInv` says that a rewrite under way is either one
record that already rules in RAM (`Installing`), or the self-test's restore
(`Restoring`), which is never under way in a behaviour without disturbance.
`FlashInv` says what stays true at every point of the first kind (`Rewriting`):
the other sector is what RAM says it is, it rules, it holds what was confirmed
last, and the new record's number is not smaller. The very first record is the
exception, as there is nothing to lose. The proof rests on `RulingSector`
choosing the same record whatever lower-numbered record stands beside it.

### `NvsProofs`

For every set of keys, every number of entries, values and every hold (all
positive; the boot counter is not one of the user's keys): `UniqueKeys`
(`OneEntryPerKey`), `Committed` (`CommittedIsStored`), `CrashSafe`
(`CrashLeavesPrefix`), `TypeCorrect`.

`StoreInv` adds to `OneEntryPerKey` what it needs of the sector: programmed
entries stand at its front with distinct keys, also after a flush was cut off,
so that a boot loads a cache with distinct keys; and where in a flush header and
checksum stand. `CleanInv` is for sound flash: the sector holds a front part of
the image written last, and between flushes the checksum is that of what the
sector would be loaded as. `nvs_commit` skips the flash when the checksums are
equal; that this skips nothing that differs is `CacheImageCrc` being one-to-one
on good entries, and that is where the model's checksum is ideal.

### `Wpa2Proofs`

For every number of nonces, group keys, transmissions and troubles (positive):
`NoReinstallation` (`NoKeyReinstalled`), `ConfirmedKeys` (`KeysFollowM4`),
`Agreement` (`AuthenticatedMeansAgreed`), `TypeCorrect`; and, when there are fewer
troubles than transmissions of a message (`MaxTrouble < MaxTries`, as in the
run), `Tolerance` (`TroubleIsTolerated`). The hypothesis is the claim itself:
with as many losses as transmissions every one of them can be lost.

That no key is installed twice needs an order of keys: a pairwise key carries
the nonce of the access point, and `KeysInv` says that a key still to be
confirmed is newer than every key that is or was in use, as long as an M1 is
being answered. The order survives a join over the association, but the state
that says that a key is in does not, which is where the exception comes from.
For this `FramesInv` ties every frame on the air to the access
point's exchange (an M1 never follows an M3, nor an M3 a group message),
`StateInv` ties the supplicant's state to its keys, and `ConfirmInv` says that an
M4 under way, and a report of this handshake that it arrived, are about the key
about to be installed; of reports marked `old` it says nothing, and nothing else
does. `IdleInv` is what a new association starts from: no frames, no keys, and
old reports only. `AgreeInv` follows the access point phase by phase; its hard
case is a group message repeated or overtaken, where the replay counter has to
tell the last group key from the one before.

`Tolerance` counts, with an invariant of its own on top of `IInv` (`Count`, which
holds until a join comes over the association and again after its end). `CountInv`
says that every transmission of the access point but one has cost a trouble, and
that this one is alive: the message is on its way to the station, or the answer
on its way back. An access point that is about to give up has
transmitted `MaxTries` times, so nothing is alive and `MaxTries` troubles are
spent. That only a trouble can end a life is `PathInv` (both sides mean the same
keys, so whatever arrives is accepted and answered) with `CounterInv` (frames
arrive in the order of their replay counters, so none is taken for a replay).
The exception that `TroubleIsTolerated` names is the station that waits for the
report of its M4: it answers no group message, at no cost in troubles once no
report can come any more.

### `DhcpProofs`

For every set of addresses and options, every lease of at least two units,
every back-off (with `1 <= BackoffInitial <= BackoffMax` and a jitter not above `BackoffInitial`)
and any number of tries and messages: `LeaseHeld` (`AddressIsLeased`),
`SoftApKept` (`ApAddressStays`), `TypeCorrect`.

The client counts its lease from its first REQUEST, the server from the ACK.
`ExchangeInv` is what makes the client's count the smaller one: no message of the
current exchange asks or grants before the first REQUEST, and an ACK under way
still covers the lease less the age of the request. `UseInv` says that a linked
station with an address is bound and its time ends before the server's; the one
exception is the turn of the main loop in which the time has run out and
the tick has not seen it, and the other the window between a loss and the next
join (`retry`), where nothing is claimed until the client is bound. `LinkInv`
ties address, link and setup mode and is what `ApAddressStays` needs.

### `SlotsProofs`

For tables and pools of every size (a connection may hold two units at least),
any peers and ports, and requests of any number of parts: `ServedRight`
(`ServedOnceFromItsOwn`), `SlotsOwned` (`LastingSlotsAreOwned`), `TypeCorrect`,
whose part about `used` says that the pool is given back exactly.

`ConnectionOK` says of each slot, by state and user, what it may be; its core is
`Held`: a slot whose error callback would reach the MQTT client is the one the
client points at. `RequestOK` relates the two tables: an open HTTP connection
that sent part of its request has exactly one request slot, and that holds what
was taken and nothing else. Both are about worlds, the records handlers work on,
because `tcp_new` may abort another connection and its callback may run, in the
middle of a handler. The accounting of the pool is an argument about the
cardinality of the set of pairs of slot and unit, one lemma for each way a
connection changes.

### `StationProofs`

For every set of credentials, every back-off, number of fast attempts and
troubles (the passphrase-less form of credentials is open and is not accepted):
`Reachable` (`NeverStranded`), `SoftApJustified` (`ApHasReason`),
`FailureRestores` (`FailedKeepsWhatWorked`), `LossSeen` (`LossIsNoticed`),
`Addressed` (`OnlineHasAddress`), `TypeCorrect`.

The functions of the code are operators on a pair of board and radio, and so is
the invariant: `DriverInv` (the driver's variables tell the truth about the
radio), `JoinInv` (while the board is on its way the SoftAP is up exactly for a
portal join; otherwise it is up), `WorkedInv` (what a portal join in setup mode
leaves behind without being unproven has associated, was joined over an
association, or is from before). Each
operator has one lemma that says what it keeps and what it establishes, and an
action composes those lemmas in the order of its calls. `NeverStranded` alone is
not inductive: a tick acts on `keep_ap` and `lost`, which must not lie.

### `TcpProofs`

For every sequence space, segment and window size, retry and refusal limit:
`Timed` (`OutstandingIsTimed`), `Ordered` (`SendSpaceOrdered`), `TypeCorrect`; and,
for initial numbers that are `Apart`, `Intact` (`StreamIntact`) and `QuietEnd`
(`QuietEndMeansDelivered`). The assumptions: the sequence space is even and more
than twice as large as what a connection sends (the code has 2^32 and a buffer
of a few kilobytes), a segment and the initial congestion window fit the buffer,
and there is an initial number for every connection.

The control block's invariant is about three regions of its life. While only the
SYN is out (`OpeningInv`) there is nothing else and the timer runs. After that
`SpaceInv` orders una, nxt and max inside the buffer and the FIN behind it and
says what `fin_sent` means when nxt has been put back for a retransmission, and
`FinInv` ties the FIN's flags to the state. `Sync` holds also in the middle of a
handler; `Settled` (what is outstanding has a timer) only at its end, and is what
the last flush re-establishes. `OutstandingIsTimed` needs all of it: whether
`tcp_output` stops the timer depends on una and max, and those are compared as
distances modulo the sequence space, which mean an order only while the buffer
is smaller than half of it. That the loop ends with nothing left to do that it
could do (`OutputFacts`) is an induction over its turns: each sends at least a
byte or the FIN, or changes nothing. As a function is recursive and not an
operator, the induction is over a set of numbers, from the minimum principle.

The streams of the two ends are about both control blocks and every segment ever
sent, since the network keeps all of them and delivers any of them again. The
server may open several connections, for old SYNs of the client come back;
`StreamInv` says which of them counts. Until a SYN-ACK opens the client's
connection nothing but SYNs and resets is on the network and nothing was
written (`Unbound`). From then on one connection of the server is the client's
partner, for good (`Bound(k)`): each live send buffer holds the rest of its
stream from una on (`SendOK`), each receiver expects the first byte it has not
taken (`RecvOK`), every segment on the network is a SYN, a reset or a piece of
one of the two streams whose ACK is not ahead of what the other end has taken
(`DataOK`), and a connection that ended well was read to the end. Later
connections of either end get no further than SYN_SENT or SYN_RECEIVED, because
nothing acknowledges their numbers. `Intact` and `QuietEnd` are read off
`StreamInv`. Its proof (`Streaming`) has one lemma for each part
of `tcp_input` and `tcp_output`, in terms of a stream (`Flow`) and a position in
it, and the distances modulo the sequence space become positions only there.

`Apart` is the hypothesis that the initial numbers of one endpoint's connections
lie further apart than the bytes, the SYN and the FIN of a connection. The code
draws them at random (`hw_rng_u32`, `tcp.c:496`) and never compares them with an
earlier connection's, so this is probable and not certain, which is why it is a
hypothesis of these theorems and not an assumption of the module. It is needed:
with the server's numbers `<<0, 0, 8>>` TLC finds `StreamIntact` violated: after an
abort, an old SYN-ACK and an old segment of the server's first connection are
those of its second. The instance of the run satisfies it
(`InstanceAssumption`).

Two definitions had to change for a theorem to hold, both toward the code: an
answer from inside `recv_cb` checks `tcp_sndbuf_space`, without which a buffer
outgrew its limit in instances with more bytes than the run has; and time in
`Dhcp` passes only after a tick has seen the client's last change.

### Only model-checked

* Liveness, which the prover does not reach: `AcceptedIsHandled`,
  `PendingIsCommitted`, `JoinsGoOn`, `ExchangeEnds`.
* The streams of `Tcp` for initial numbers that are not `Apart`: there they need
  not hold.
* The properties of the four runs that are violated.

## 6. What is not modelled

`PROJECT.json` gives the reason for every component. Pure computation over long
data (CRC, SHA-1, PBKDF2, AES, header, JSON and name parsing) is out of TLC's
reach and has no order to get wrong; drivers are straight-line register access;
the shell, statistics and self-tests only call operations modelled elsewhere.

* The OS adapter, the cooperative tasks and the watchdog are used by the vendor
  library, which is closed: what they promise depends on when it waits and
  yields. Step 11 of the plan needs an assumption about that first.
* The arena's pools are used by the development module only, its scratch marks by
  the HTTP server in one balanced call; step 10 is about the algorithm.
* The SoftAP's DHCP and DNS server answers each packet from a table of four
  entries without time; mDNS and the network layer are answers to packets with
  no state a later step relies on but the ARP table.
* The LP core's mailbox is one command and one acknowledgement; what can go wrong
  there is described above.
