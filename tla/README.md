# SenseMote: specification and verification

SenseMote is firmware for a network of CC1110 radio boards. Battery-powered *devices* send key/value requests to a
*hub*, which passes them over TCP to a Pachube server and holds the replies until their device polls for them. This
directory keeps TLA+ models of that firmware (`src/firmware`), the TLC configurations that check them on small
instances, and proofs, checked by TLAPS, of what holds for every instance.

Contents: [parts](#the-system), [modules](#modules), [runs](#what-the-runs-check), [bounds](#bounds),
[fairness](#fairness), [proofs](#what-is-proved), [disagreements with the documentation](#where-code-and-documentation-disagree),
[what is left out](#what-is-not-modelled), [plan](#plan).

## The system

Each station is one single-threaded program: `os_init` initialises every part, then `os_bg` calls each part's `_tick`
for ever and its `_1hz`, `_10hz` and `_100hz` when the time has come. Parts call each other directly and back through
fixed names (`mac_rx_cb`, `tcp_event`, ...). Only interrupts run concurrently; the code never disables them after
start-up and relies on who touches what when.

| Part | Source | State | Operations | What makes it correct |
|---|---|---|---|---|
| Device MAC | `os/mac_node.c` | `waitAck`, `pollPending`, `poll_seq`, `rx_timeout`; the call stack, as `mac_tx` waits inside itself | `mac_tx`, `mac_tick`, `radio_received` | packets once and in order; one `mac_tx_cb` per `mac_tx`; no wait for ever; no stale answer |
| Coordinator MAC | `os/mac_coord.c` | table of `NUM_SLOTS` (2) slots | `mac_tx`, `radio_received`, `mac_1hz` | no packet lost silently or reported twice; slots distinct; none delivered after it expired |
| Radio driver | `os/radio_cc1110.c`, simulated by `os/radio_posix.c` | `radioState`, `pkt_complete`, `radioErrFlag`, `radiobuf`, `radiobuf_index` | two ISRs, `radio_tick`, `radio_tx`, `radio_rx`, `radio_idle` | frames whole; never deaf, never stuck; a sleeping device's radio off |
| Scheduler | `os/os.c` | last times | `os_init`, `os_bg` | each part keeps being called |
| Device protocol and sketches | `os/pb.c`, `os/sketchwrapper.c`, `apps/switchsketch` | request in progress, sequence numbers | get, put, subscribe; completions | a completion belongs to its request |
| Hub application | `apps/pbhub` | ring of 4 requests, `connected`, `local_seq`, line buffer | `mac_rx_cb`, `tcp_event`, `line_rx`, `app_1hz` | requests in order, lines whole, reconnects |
| Hub's TCP connection | `os/tcp_uip.c` over `uip/uip.c`, or `os/tcp_sock.c` | `tcp_txbuf`, `connected`; TCP state | connect, send, acked, closed, aborted | a request reaches the server whole; flags agree |
| Network | `os/net_uip.c`, `uip/dhcpc.c`, `uip/resolv.c`, `uip/uip_arp.c` | link, `online`, DHCP state, timers, name and ARP tables | link up and down, DHCP replies, `net_1hz` | the hub comes online again after any outage |
| Time and sleep | `os/timer_cc1110.c`, `os/sleep_cc1110.c` | `ovf_count`, `offset` | `timer_getTicks`, `timer_toMS`, sleeping | time is monotonic over wraps |
| Console, shell | `os/cons_cc1110.c`, `os/shell.c` | receive ring | ISR, `cons_getch` | no byte overwritten unread |
| Ethernet driver | `os/ether_cc1110.c` | ENC28J60 registers | `ether_tick`, `ether_tx`, `ether_rx` | link changes reported |
| Bootloader | `cctl/boot`, `cctl/cctl-prog` | receive ring, page buffer | load, verify, jump | what is flashed is what was sent |
| uBASIC, other applications, peripherals | `apps/*`, `os/*` | | | |

What is hard here: frames lost, late, repeated (over UDP) and overtaking each other; stations restarting; timeouts
racing answers; callbacks that call back into the part that is calling them; interrupts on a shared buffer; bounded
tables and rings; small counters that wrap. `PROJECT.json` lists each such place ("hazards") with the properties that
watch it.

## Modules

| Module | Models | How |
|---|---|---|
| `RadioMedium` | the air (external) | a set of frames; each station may hear each frame late, out of order, never, and with `Duplicates` again |
| `MacCoord` | `mac_coord.c` | `CoordTx`, the three ways through `radio_received` (`CoordDrops`, `CoordListens`, `CoordAnswers`), `Coord1Hz`, `CoordRestart` |
| `MacNode` | `mac_node.c` | one action per stretch of code between two calls of the application; the stack holds the calls in progress |
| `MacLink` | hubs and devices together | the interleaving of all of them, and the properties |
| `Courier` | what the link promises | packets held, sent, returned, delivered: no frames, slots, numbers or time |
| `MacLinkMC` | | the symmetry set for TLC |
| `PktQueue` | what the hub's ring promises | a bounded queue that drops its oldest entry |
| `CmdRing` | the ring of `pbhub.c` | `Put` (`mac_rx_cb`), `Take` (`tcp_event`), `Restart` |
| `HubTcp` | `pbhub.c`, `line.c`, `tcp_uip.c`, the connection of `uip.c`, what `net_uip.c` and `resolv.c` do to them | one action per thing `os_bg` calls: `MacRx`, `Net...` for what `net_tick` may find, `Second`; `Reboot`; the server |
| `RadioCC1110` | `radio_cc1110.c` | interrupts (`TxByte`, `TxPastEnd`, `RxByte`, `RxTooLong`, `rf_isr` with any of its flags) at every point `pc` of the background |
| `Arp` | `uip_arp.c`'s table | operators on a table and its 8-bit clock |
| `Resolver` | `resolv.c`'s table of names | operators on a table: queries, retries, answers |
| `HubNet` | `net_uip.c`, `dhcpc.c`, `ether_tick`, the tables above, the connection up to ESTABLISHED; the LAN (external) | one action per thing `os_bg` calls and per frame it may find |
| `NetStatus` | what the network promises the hub's application | a hub comes online once after each start, and is down from a lost link to the next start |
| `Clock` | `timer_cc1110.c`, `sleep_cc1110.c`, the watchdog, `os_bg`'s second | `Tick` at any moment between the steps of one reader |
| `Sketch` | the switch sketch, `sketchwrapper.c`, `pb.c`, the hub's ring and slot, the server | one device's click to the server's answer |
| `Device` | a device with the sketch built into it | `Clock` or `Sketch`, and liveness |
| `ByteQueue` | what the console's ring promises | a bounded queue that drops what finds no room |
| `ConsRing` | the ring of `cons_cc1110.c` | `consrx_isr` between any two steps of `cons_getch`, half an index at a time |
| `Boot` | `cctl/boot` | the window, the upgrade loop, flash |
| `Flashing` | `cctl/cctl-prog` at the other end, the console, power and line | both ends' steps |
| `FlashingMC` | | a small program for TLC |
| `MacLinkProofs`, `MacDeliveryProofs`, `RadioProofs`, `HubProofs`, `HubDeliveryProofs`, `NetProofs`, `ConsProofs`, `DeviceProofs` | | theorems |

### The link

`waitAck`, `pollPending`, `poll_seq` and `slottbl` are the C variables. `pollPending` is the index of the `mac_tx`
whose payload it points to, 0 for NULL. A slot whose `length` is 0 is `NoPkt`; the code leaves its other bytes and
reads none of them. `post`, `heard`, `inbox` and the `cbs` field of a call are histories: what became of a downlink
packet, what a hub's and a device's `mac_rx_cb` were given, how often `mac_tx_cb` was called for a call.

A handler that calls nobody back is one action, since nothing else runs on its station meanwhile. On a device, a
callback may call `mac_tx` again, so `radio_received` and `mac_tick` are cut at each callback: `NodeTakes`,
`NodeRxCbReturns`, `NodeTxCbReturns`; `NodeTimesOut`, `NodeToRxReturns`, `NodeToTxReturns`. `ReenterFrom` says from
which of them the application does so. A coordinator's callbacks (in `pbhub` and `coordapp`) do not call `mac_tx`.

Abstractions, each of which only adds behaviour unless it says otherwise:
- Time. A device's timeout may come at once or late; a slot's seconds are counted, when the second ends is free.
- Payloads are model values. Encryption, lengths, CRC and addresses other than the EUI64 are data.
- `MaxLate`: a frame dies before its poller has advanced `poll_seq` `MaxLate` times, at most `SeqMod - 1`. In the
  program this is 255 polls, 2.5 s at the least; a radio frame lives for milliseconds and the MAC does not retransmit.
  This is an assumption, and the ordering properties need it: a frame of exactly 256 polls ago would be taken.
- `NodeRestart` removes the device's frames: a restart passes through the bootloader's wait for its programmer.
- A device not in `Present` is switched off or out of range: hubs accept packets for it, which expire.
- `NodeSends` is given no empty payload: `pb_poll` is the only sender of one, and it polls.
- A refused `mac_tx` of a coordinator returns NULL and changes nothing: a stuttering step.

### The radio driver

`index` is 0 at the start of `radiobuf`, 1 within the frame, 2 past its last byte. `air` counts the same for the radio
itself, which takes or gives a byte at each interrupt of `rftxrx_isr` but does not look at the driver's index: a sync word
(`RFIF_IRQ_SFD`, enabled in transmit as well) puts `radiobuf_index` back to 0 at any moment, so the two may part, and the radio
may ask for a byte when the frame has no more (`TxPastEnd`). A frame has gone out, or come in, whole only if each of its bytes was
where the radio had it. Left out is a sync word whose interrupt is served only after the first byte behind it (32 us). `marc` and `rfst` are registers
of the radio: what it is doing, and the last strobe written. A strobe and its wait are one step, as `SIDLE` comes first
and a radio that is idle interrupts nobody. The MAC is cut down to what it does to the driver (which the header of the
module lists). `changeRadioState` is one step with the callback `radio_idle_cb` and its `radio_rx`.
`Garbled` is a buffer that holds parts of frames; CRC failures are the choice in `TickFrame`. A byte arrives in
`radiobuf` as a frame of `RxFrames` at the earliest when it is the last one.

### The hub's connection

`hub` is the memory of one program, one field per variable (`HubTcp` lists them). A handler is an operator that takes
this record and returns it changed, as the C functions call each other on the same memory: `net_tick` is
`NetTick(S)`, where `S` holds what the memory may be after `ether_tick` and `uip_input` have dealt with what came in, and
goes on with `tcp_tick`, which may end in `handle_pkt`. `Periodic` is `net_periodic`: once a second, and on every loop
while `tcp_uip.c` is not connected.

- Packets. A device's packet, the request `handle_pkt` makes of it and the server's reply share one number, in the order
  `mac_rx_cb` accepts them. `Unknown` are packets in which `handle_pkt` finds no command. A packet that does not decrypt
  changes nothing.
- The network is `sent`, the set of every segment the hub has sent. The server may take a segment now, later, or never, so
  loss, delay and repetition need no actions. In the other direction, `NetData` delivers the next piece of what the
  server has sent and an acknowledgement or not. A segment out of sequence is answered by uIP with a bare ACK and
  changes nothing: a stuttering step.
- Connections are numbered, as `uip_connect` takes a new local port each time, starting at a random one after a reset.
  Segments of two connections are never confused; a port that comes round again after 28,000 connections is not modelled.
- Time. uIP's timers, the DNS retries and the 10,000 polls of `TCP_TIMEOUT` may run out at any time; each failure counts
  against `MaxFails`.
- A reply comes in two pieces, so a connection may break within a line. Lines too long for `linebuf` are data.
- Names: `asked` and `known` stand for the name table. An answer without an address, after which a lookup finds none or an
  old one, is not told apart from a lost one.
- `net` is `"down"` from the loss of the Ethernet link until the restart. `ether_connected(TRUE)` starts DHCP again, but a
  DHCP client that has its lease ignores the new one, and the watchdog resets the hub. That this is all the network may do
  to the hub is `NetStatus`, which `HubNet` is shown to implement. A reset clears the memory: nothing calls `tcp_init`.

`sent`, `issued`, `gone`, `read` and `lives` are histories. `srv` is the server's end, an ordinary TCP that accepts each segment
once and in sequence, and answers every whole request in order.

`PktQueue` is what the ring promises. `Held` maps the ring to it: the slots from `cmdpkt_rd` up to `cmdpkt_wr`. `lives` counts the
restarts, so that a ring which overflows into emptiness cannot pass for one that was restarted.

### The network under the hub

`HubNet` models what `HubTcp` abstracts to `net`, `asked` and `known`: how the hub gets its address, finds its server's, and
gets a SYN to it. `hub` is again the memory of the program and `net_tick` an operator, `NetTick(In, n)`: `ether_tick`, then
what one received frame (`In`) does, then `tcp_tick`. `lan` is the cable, the Ethernet chip's latched `linkif`, the router's
Ethernet address, and `got`: the requests that have reached someone who may answer them, now, later, twice or never.

- DHCP. `dhcp_t` is compared with the 16-bit clock without regard for its wrap, so a timer of the client may seem to expire at
  any moment, early or late (`MayExpire`); it may do so on the very message it waits for. NAKs and malformed messages are
  dropped by the client, hence stutter.
- Link. The chip's interrupt latches any change and the code takes it for a loss; the return is found by polling. A change may
  come after the pin was tested. While the link is down nothing sent arrives.
- ARP. The router and one peer have addresses; the router may be replaced by one with another Ethernet address, and an old
  answer may still come. `idle` counts, as a history, what the 8-bit `time` of an entry is meant to measure.
  `arp_timer` runs the ARP clock every 11 s, not 10, as it is tested before it is decremented.
- Names. The hub asks for one name over and over; each `resolv_query` takes the least recently used entry.
- Bounded by `MaxFails`, together: lost link, lost power, another router, a peer's or a stale ARP packet, a broken connection.
- A connection that comes to be while the link is lost leaves `connected` TRUE and `online` FALSE until the watchdog; an ACK
  buffered over the loss puts the hub online with its link down, also until the watchdog. Both are in the model, and
  `Reaches` says the hub recovers.
- Not modelled: the ENC28J60's registers and its ring of received frames, of which a frame is lost or comes; pings; a DNS
  answer without an address; data on the connection (`HubTcp`).

### A device

`Device` is one of two devices. A switch sketch never looks at the time, so its state and `Clock`'s do not touch; all other
sketches differ, to `Clock`, in how they delay and sleep.

`Clock` keeps the two halves of the tick counter apart, `low` (T2CT) and `high` (`ovf_count` with `offset`), since
`timer_getTicks` reads them one after the other: `TornAt` is the value it returns when a quarter of a second ends between the
two. `timer_toMS` subtracts as 32-bit numbers and cuts the result to 16 bits, as in C, so a second may end early when
the counter wraps. `age` and `began` are histories of real ticks. Sleep stops T2, and the whole of the sleep is then added, also
if a pin ended it early: the clock runs ahead. `busy` stands for the watchdog: what does not return within `MaxBusy` is reset
and not followed further. Any reading may be torn; `torn` tells which of those that still count were. The interrupt is taken
within a tick.
`sleep_powersave` of 242 quarters or more would overflow its 16-bit event register; the sketches give 4 and 80.

`Sketch` is the switch sketch from the click to the answer that turns its light off, through `pachubePut`, `mac_tx`, the hub's
ring, the server, `line_rx` and the slot. What the other modules model in detail may here just happen, at the price of a
fault: a lost frame, a dropped or repeated request, a lost or refused reply, restarts, a server slower than the sketch's
polls. `storedseq` is assigned only when `pachubePut` has returned, so a completion that comes during its own wait is compared
with the number before it; and the processor sleeps although a click came since it tested its target (`Dozes`, `FallsAsleep`),
up to 20 s. Both are in the model. `pb_get`, `pb_sub` and `pb_unsub` differ from `pb_put` in one byte, and no sketch of the
repository uses them.

### The console and the bootloader

`ConsRing` reads and writes `rxfifo_in` and `rxfifo_out` a half at a time, as an 8-bit processor does with 16-bit variables
(`CONS_RXFIFO_ELEMENTS` is 1280 in one application), in either order of the halves. At 115200 baud at most one character comes
between two halves; with two, the ring would fail. `Flashing` gives the ring its characters: all that the host sends while the
user's program runs goes to the console, which resets the board on `+++`.

`Boot` is `bootloader_main`, its upgrade loop, and flash that must be erased before it is written. Page `"0"` is the bootloader's
own. `flash_erase_page` and `flash_write` refuse the number 0 and cut every other to the 32 pages there are (`Addressed`), so
32, 64, ... erase or write the bootloader; reset leads there, so the board is then `"dead"`. The programmer names no such page,
but a byte of the image run as a command may. What `r` sends of a number above 31 is memory, another page or nothing. `Flashing` adds the programmer:
`+++`, the wait for two `B`s, then load, erase, program, read and compare for each page, erase alone for an empty one, at last
`j` and the console. A lost byte or a loss of power at any point counts against `MaxFaults`; garbled bytes are not
modelled, as pages are verified. `Watchdog` ends an upgrade loop that waits for what does not come, a second before the programmer's own two.
`serialRead` reports a byte also when none came within its two seconds (`lapsed`), so that an answer may be whatever was
in the buffer: `AnswerLapses`. A half-flashed program may be started; then the user must reset the board, as the programmer
asks (`UserResets`). `load_data` and `read_page` work in buffers that nothing clears, `rambuf` on the board and `verbuf` on the
programmer's stack, so after a loss either may still hold the page before; a page that equals it then passes for one that was
written. `Byte` names the bytes and answers on the line, of which the image is any choice. The bootloader's own ring is a sequence here: that it does not overflow is a matter of real time.

## What the runs check

| Run | Instance | Properties |
|---|---|---|
| `mac_link` (147,874 states) | two hubs in earshot of each other, two devices, two packets, all restarting, air with duplicates | `TypeOK`; `HeldIffPending`: a packet is in one slot until reported; `OnlySentTravels`: no packet reported expired is ever delivered; `InboxInOrder`: once, for this device, in order; `NoCrossTalk`; `OnlyWhilePolling`; `ImplementsCourier`: the refinement |
| `mac_calls` (96,324 states) | one hub with one slot, one device calling `mac_tx` from its callbacks two deep, with and without poll, one device that never polls, restarts, fairness | `WaitCanEnd`; `OneTxCallback`; `WaitEnds`; `PacketIsReported`: also a full table empties, by delivery or expiry |
| `radio_driver` (1,134 states) | a coordinator or a device, two packets, two frames, fairness | `TypeOK`, `TransmittedWhole`, `ReceivedWhole`, `RadioOff`, `HubKeepsListening`, `SpinIsFinite` |
| `hub_tcp` (145,054 states) | four packets, one without a command, a ring of three slots, two failures of any kind, fairness | `TypeOK`; `NothingLost`; `InOrder`: requests reach the server in order, at most once on each connection; `SameSegment`: a retransmission is what it repeats; `LinesWhole`; `FlagsAgree`; `ImplementsQueue`: the refinement; `Settles`: the hub ends up connected; `Drains`: it serves every packet |
| `hub_net` (49,268 states) | one router, a peer, two UDP connections, one failure at any moment, fairness | `TypeOK`; `ConnsApart`: DHCP never takes the resolver's connection; `NeverStranded`: up and offline, the watchdog is running; `ArpAges`: an entry nobody refreshes expires, or the clock's wrap keeps it; `ImplementsNetStatus`: the refinement; `Reaches`: the hub gets to its server and stays there |
| `device` (175,267 states) | three faults and two clicks; scaled counters, so that the wrap comes every few seconds; fairness | `TypeOK`; `TimersKept`: no second is missed, by more than a quarter for each torn reading of the two it is the difference of, and no delay is cut short whose own readings are whole; `LedOffStored`: the light goes off only when the server has the put of that number; `Settles`: in the end the light is off, and a device that was clicked has told the server a state, unless it restarted and forgot the click |
| `flashing` (577,663 states) | two pages and an empty one, three characters typed, two faults, fairness | `TypeOK`; `ImplementsQueue`: the console's ring; `Complete`: "Programming complete" is true, of an image without equal pages; `Completes`: it is reached, or the bootloader has been overwritten |
| `mac_reenter`, `mac_stale`, `mac_nopoll`, `radio_busy`, `hub_window` | see below | one each, violated by the code |

Each property has a mutant in `PROJECT.json`: a definition changed as a plausible bug would change the code, under
which TLC finds the property violated. The mutants are the definitions marked `\* mutant` beside the true ones.

### Bounds

- Two hubs and two devices: every interaction between stations is pairwise (a hub hearing a hub, two devices in one
  hub's table, two hubs answering one device). Two packets suffice to overtake, to fill both slots and to compete for
  one device.
- `NumSlots` 2, `LocalSeqs` of two values, `TimeoutS` 1: the table fills, numbers clash, seconds run out. In `mac_calls` one slot,
  which a packet for the device that is not there (`Present`) keeps from the other's until it expires; and no frame outlives its exchange there
  (`SeqMod` 2, `MaxLate` 1): a late frame is dropped by its number and touches neither waits nor slots, and `mac_link` has it.
- `SeqMod` 3, `MaxLate` 2: sequence numbers wrap, and frames come one exchange late.
- `MaxCalls` 2: a call within a call's callback. Depth is limited by the device's stack in the program.
- The radio model has no bound: its state is finite.
- `NUM_CMDPKTS` 3 (4 in the program), `Pkts` 4: with one request in `tcp_txbuf` the ring still fills, drops and wraps.
  `MaxFails` 2: a failure during the recovery from another, such as a connection lost while it is set up, or a link lost
  after a restart. Three connections in all.
- `HubNet`: one ARP entry, so that the router's and the peer's compete; the ARP clock has three values and entries expire after two
  runs, so that it wraps under an entry; one name (its table's sequence number wraps at once, which is harmless when every
  entry is for the same name); two UDP connections, as many as DHCP and DNS need; one failure, at any moment of any phase,
  as recovery from it is what the properties are about.
- `Clock`: 3 ticks a quarter and 8 quarters, 2 ms a quarter: all widths are scaled together so that the counter's span exceeds the
  result's by more than a second, as 2^16 ticks exceed 2^16 ms (by 1536 ms) in the program. Naps of one and two quarters. Eight quarters are just what
  `NapsFit` asks for; with six or seven TLC finds a second missed.
- `Sketch`: numbers of eight values (`NumbersLast` needs just that of three faults and two clicks), two polls between puts, a slot that lives two seconds, a ring of one request, two clicks (the
  second may come at any moment of the first's way) and three faults (a second within the recovery from another).
- `Flashing`: two bytes a page; both pages' bytes are a command to the bootloader, so that a lost byte makes data run as
  commands: the second page's erases another page, the first's writes the bootloader's by another number of it. Four pages in all, and
  a byte gets to the one in its low 2 bits, in place of 32 and 5. Three `B`s of eight. A ring of three with halves of two values, so both halves of an index change. Two faults.

The proofs need none of these bounds.

### Fairness

- `os_bg` calls `mac_1hz` every second, so `Coord1Hz` is weakly fair.
- A device inside `mac_tx` calls `mac_tick` in a loop whose clock runs on: `NodeTimesOut` is weakly fair. Its
  callbacks return, and so does `mac_tx` when its loop has ended.
- Nothing is assumed of the air, of polls, or of when an application sends.
- The driver: the processor runs (`WF` of the background as a whole, which is one thread), and a transmission ends or
  fails, as the radio's state machine and its underflow interrupt ensure. Nothing is assumed of reception.

- The hub: `os_bg` calls `net_tick` (`NetNothing`) and `net_1hz` (`Second`) for ever. What is sent again and again is
  received once: DHCP's and DNS's answers, the SYNACK, a segment at the server and its acknowledgement at the hub. A hub
  whose link is down is reset, by `dhcp_timer`. `GivesUp`: once the server has closed, retransmissions to it end, since
  uIP counts them. Failures are not fair, and at most `MaxFails`.
- The network: `os_bg` runs for ever, a cable pulled is plugged in again (`LinkUp`), and a request made again and again is at last
  answered in time (`SF` of DHCP's, DNS's and ARP's answers and of the SYNACK). Failures are not fair and are at most `MaxFails`.
- The device's main loop, the hub's `os_bg` and the server go on (`WF`). Clicks and faults are not fair, and bounded.
- Flashing: neither end is idle for ever (`WF`), power returns, and the user who is told again and again to reset the
  board does (`SF(UserResets)`; the programmer prints "reset board now").

## What is proved

For every set of stations, packets and slots, every `SeqMod`, timeout, nesting depth, ring size, window, table and number of
failures (TLAPS, 8 modules):

| Theorem | Says |
|---|---|
| `TypeCorrect` | `Spec => []TypeOK` |
| `SlotsAreDistinct`, `HeldUntilReported` | `SlotsDistinct`, `HeldIffPending` |
| `TravelsOnlyIfSent`, `DeliveryInOrder`, `DeliveredWhilePolling`, `HubsHearDevices` | `OnlySentTravels`, `InboxInOrder`, `OnlyWhilePolling`, `NoCrossTalk` |
| `LinkIsCourier` | `ImplementsCourier`: hubs and devices implement the abstract mail |
| `WaitsCanEnd`, `CalledBackOnce` | `WaitCanEnd`; `OneTxCallback`, if no `mac_tx` comes from `mac_rx_cb` of a received packet (`"rxcb" \notin ReenterFrom`) |
| `DriverIsQuiet`, `RadioTypeCorrect`, `FramesAreWhole` | the driver's discipline of who may touch the buffer when, for any MAC; `TypeOK`, `ReceivedWhole` |
| `DriverIsReady`, `RadioIsOff`, `FramesGoOutWhole` | if the MAC always polls (`AlwaysPolls`), as every caller in the repository does: the driver is ready when a packet comes; `RadioOff`, `TransmittedWhole` |
| `RingIsQueue`, `HubQueue` | `ImplementsQueue`, of the ring alone and of the hub that uses it |
| `FlagsAlwaysAgree`, `SegmentsRepeat` | `FlagsAgree`, `SameSegment` |
| `AskedInOrder`, `NothingIsLost` | `InOrder`; `NothingLost`, if the server's window admits whole requests (`Windows = {"whole"}`) |
| `MemoryHolds`, `ConnsAreApart`, `NeverLeftStranded` | the discipline of the network's memory; `ConnsApart`, `NeverStranded` |
| `StatusIsImplemented` | `ImplementsNetStatus`: what `HubTcp` takes for granted of the network |
| `BootloaderStays` | no fault takes the bootloader away, if no byte but 0 gets to page 0 (`NoAlias`, which the code does not ensure) |
| `RingHolds`, `ConsoleIsQueue` | the console's discipline; `ImplementsQueue` of its ring |
| `LinesAreWhole` | `LinesWhole`: `line_rx` is given whole replies of the server, whatever breaks between their pieces |
| `EntriesAge` | `ArpAges` |
| `ClockIsKept` | `TimersKept`, whatever is read torn before or at it, if naps fit the counter (`NapsFit`); of a delay with a torn reading of its own it says nothing |
| `LedOffIsStored` | `LedOffStored`, if there are fewer faults and clicks than sequence numbers (`NumbersLast`) |
| `HubTypeCorrect`, `NetTypeCorrect`, `DeviceTypeCorrect`, `FlashingTypeCorrect` | `TypeOK` of `HubTcp`, `HubNet`, `Device`, `Flashing` |

The arguments:
- **Slot table** (`TableInv`). `HeldIffPending` is not inductive, for it quantifies over a packet and a hub and speaks
  of the one slot that holds it. The invariant states both directions instead: every used slot's packet is held by this
  hub for this device (`HeldEntry`), every held packet has a slot (`HeldSomewhere`), and no two slots clash.
- **Delivery** (`DeliveryInv`, on top of `TableInv`). Order in an inbox depends on what is still on the air.
  `AirInv` ties a frame's number to its age: `seq + age = poll_seq`, modulo `SeqMod`; as the age is below `SeqMod - 1`,
  only a frame of age 0 is taken, and one of age 0 exists only while its poll is open. `InboxInv` says that an answer of
  age 0 may follow what the device already has, `BeforeInv` that an earlier packet of the same hub and device has left
  the table before a later one entered it.
- **Courier.** A hub's packet is in the mail while it has a slot; `mac_coord_tx` finds a slot free only if fewer packets are
  held than there are slots, as the packets held map one to one to slots used (`SlotLeft`). Each handler is then one step of
  `Courier` or none; that a frame taken is a delivery, with nothing later delivered before it, is `DeliveryInv`.
- **Calls** (`WaitInv`, `ShapeInv`). `waitAck` and `pollPending` speak of one call, while calls of `mac_tx` nest.
  `WaitInv`: what is pending is the poll of the innermost wait, so the wait has a time-out. `ShapeInv`: between two nested
  calls of `mac_tx` on the stack is the callback that made the inner one, which tells whether the outer has been reported, so
  each is reported once. A `mac_tx` from `mac_rx_cb` breaks it, as `mac_reenter` shows.
- **Driver** (`Quiet`). `StateInv`: a radio that receives or sends does so by the driver's last strobe, in receive the driver's index is
  the radio's own, and what is complete leaves the radio idle; `BufferInv`: a complete frame stays in the buffer until `radio_tx`;
  `PlaceInv`: where the background may be; `NodeInv`: a device that waits for nothing is not receiving. None of this needs more of the
  MAC than the model has, so it survives errors, bytes past the end and sync words in mid-frame. `Sending` adds what a MAC that always polls guarantees:
  a device is idle when it sends (`ReadyInv`), so its radio is off when it waits for nothing, and the buffer is what goes out. Without the
  poll nothing runs `radio_tick` between two packets, and after a byte past the end `mac_tx` returns while the radio still sends.
- **Ring.** `Count` and `Slot` follow the indices as a queue's length and positions do (the first `LEMMA`s of `HubProofs`), so the
  slot written is never one still held, and each step of the ring is a step of the queue. The hub's steps are steps of the
  ring or leave it alone (`RingSteps`).
- **Connection** (`HubOK`). A predicate of the hub's memory, kept by each function that `net_tick` and `net_1hz` call (one
  lemma each). `Sending`: a request is outstanding only on an open connection, and is what `tcp_txbuf` holds. `NoneAhead`: at
  `snd` or later, nothing was sent on this connection but what is outstanding, so a new request gets a new number.
  `Booting`: a hub not yet configured asks for no address, so no connection opens before it is online, when the flags must agree.
- **Requests** (`OrderInv`, `SrvInv`, `LossInv`, on top of `HubOK`). The ring, `tcp_txbuf` and the segments ever sent are in
  one order, so a new request goes out after all that was ever sent; what the server took on a connection is what was sent on
  it, in order of `seq` (`Carried`), whatever was repeated. Hence `InOrder`. An acknowledgement on an open connection means
  that the server has the request of `tcp_txbuf`, whole if its window admits that. The hub opens at most one connection per
  failure (`ConnInv`), so none is left out of the server's records.
- **Network** (`NetOK`). Each function called in `net_tick` and `net_1hz` keeps a predicate of the memory (a lemma each):
  `ether_tick` may take the hub offline (`Linked`), everything else may only bring it further (`GoesOn`). `Unconfigured`: until
  DHCP is done there is no resolver and DHCP's connection is its own; `Watched`: up and offline, `dhcp_timer` runs. Every step of
  the hub is then the one followed by the other, which is a step of `NetStatus`.
- **Console** (`RingInv`). While `cons_getch` has half of `rxfifo_in`, the index is as it was or no longer where the ring is
  empty, so what it joins of two halves tells empty from not empty. While half of the new `rxfifo_out` is stored, there is
  room for the one character that may come, so whatever the interrupt makes of the two halves it overwrites nothing unread. The
  proof assumes (`FlashingAssumption`) that some character is not `+`.

- **Bootloader** (`BootloaderStays`). Only `e` and `p` change flash, and only the page their argument gets to; under `NoAlias` that is the
  bootloader's for the number 0 alone, which both refuse. Everything else, a reset, a lapse or a lost byte, leaves flash as it is.
- **Lines** (in `HubDeliveryProofs`). While the hub's connection is open, the replies are those of one record of the server, and
  `linebuf` holds the part of one reply that `tcp_rx` has read of them and no more; every way to a new connection empties it.
- **ARP** (`EntriesAge`). An entry's `time` is the table's clock when it was refreshed, so the clock is `time + idle` modulo its
  width until the wrap catches the entry; one not caught is deleted when the difference reaches the maximum.
- **Clock** (`ClockInv`). `SecondInv`: there is a time, `m`, that the counter shows since `lastTicks_1hz`, of which what really passed
  since `os_bg` looked is at most `Lag` more: a quarter if that reading was torn, 0 otherwise. A torn reading of a `timer_delayMS` does
  not enter into it. `m` is short of a second but for the time since the last look (`busy`, which the watchdog bounds), one nap and the
  quarters that readings may be off; hence less than one turn of the counter (`NotRound`), and the subtraction gives what the counter
  shows or 1536 ms more, never less. `DelayInv` is the same of `timer_delayMS`. `NapsFit` is what makes it true: a second, two
  quarters, the watchdog's time and the longest nap fit one turn. With the program's numbers (250 ms a quarter, a counter of
  2^16) it holds for naps up to 245 quarters; the console of an example can ask for 255.
- **Answers** (`AnswerInv`). The sketch goes by the number alone, and an answer may be in the ring, a reply, a slot or the air while
  the sketch puts again and again. Each has an age, the number of puts since its own, modulo `SeqMod`. Each further put takes
  a fault or a click while the answer is on its way (`Young`, with `Early`, `Queued`, `Held`, `Flown` for where either is), so the
  age of an answer is at most `faults + clicks + 2` and its number, if the sketch waits for it, is of the one put that has it. `WasStored`: an
  answer that says it was carried out is of a put that the server has stored. `NumbersLast` is that bound against `SeqMod`, 256 in the
  program: an assumption of the same kind as `MaxLate`, that no answer is held up over 253 clicks and losses.
- **Types.** Each is one lemma a handler on records of fields. The types of the hub's memory need the order of its packets
  (numbers stay below their bound), those of the network need what bounds its timers, a page of flash keeps its length because `BootTypes`
  and `ProgTypes` follow every command, sent or made of data by a lost byte.

What the constants must be, beyond being numbers: `FlashingAssumption` says that the image and what was in flash before are of
`Byte` and a page's length, and that some character is not `+`; `BootAssumption` that the characters the programs name are bytes, and that
`Addressed` takes a byte to a page there is, the number of a page to that page.

Model-checked only: everything that needs fairness (`WaitEnds`, `PacketIsReported`, `HubKeepsListening`, `SpinIsFinite`, `Settles`,
`Drains`, `Reaches`, `Completes`), which is out of the prover's reach; and `Complete`, whose proof would have to follow one
page's bytes through both ends and every loss, after which data of the image run as commands: TLC does so for one
image, and it is false of images with equal pages.

## Where code and documentation disagree

Five runs end in the counterexample they look for:
- `mac_reenter`: a `mac_tx` made from `mac_rx_cb` of a received packet clears `pollPending`, and the outer packet's
  `mac_tx_cb` is never made. `mac_tick` keeps a copy for this case; `radio_received` does not. No shipped application
  sends from there today.
- `mac_stale`: `poll_seq++` inside the comparison (`mac_node.c:58`). One late answer costs the next one as well.
- `mac_nopoll`: a packet sent without poll has no sequence byte, yet the coordinator skips it.
- `radio_busy`: of two packets sent without poll in a row, the second is dropped and reported as sent.
- `hub_window`: `tcp_tx` is documented to transmit what was written. uIP cuts a request to the server's window, and
  `tcp_appcall` takes the acknowledgement of that part for all of it. The proofs of `FlagsAgree` and `SameSegment` cover
  this case, `NothingLost` needs `Windows = {"whole"}`.

Met on the way, without a run: `mac.h:33` says that a device with nothing waiting will "receive an empty packet", but
`SEND_EMPTY_PACKET` is disabled (`mac_coord.c:31`), so its poll times out; `mac_coord.c` reports a packet as polled
for although `radio_txComplete` is also TRUE after a transmit error; `timer_toMS` adds 1536 ms when the 16-bit tick
counter wraps, so a timeout then running comes early. These are exceptions built into the properties named:
- `uipopt.h:355` has ARP entries live for 20 minutes; one refreshed so late in the clock's round that `time` plus the maximum age
  exceeds 255 stays until it is replaced (`CaughtByWrap` in `ArpAges` and `Reaches`).
- A torn reading of the ticks, 256 too few or too many, can end a delay at once, or put a second off by a quarter (`torn` in
  `TimersKept`).
- `cctl/README.markdown:93,101,117` gives the page of `e`, `p` and `r` as 0 to 31. The board refuses 0 alone and takes every other number for
  one of the 32 pages, 32 for the bootloader's (`~BootIntact` in `Completes`).
- After a restart, a device's numbers begin again, and a reply still held for its former life passes for an answer to its first
  put (`CarriedOut` in `LedOffStored`).
- A page that should be empty is erased and not read back, and an erase that is never answered may pass for one that was
  (`lapsed` in `Complete`). Of two equal pages in a row, the second may not have been written at all and still compare equal, as
  `verbuf` and `rambuf` hold the first (`Twins` in `Complete`).

## What is not modelled

- `tcp_disconnect`, which no application of the hub calls, and with it uIP's own close; listening, stopping the peer, urgent data.
- The shell's line editor and `json.c` are text. `uBASIC` is a sequential interpreter in an example application, without
  interrupts or messages, that unit tests reach. The other example applications keep no protocol state: what they may do is in
  `NodeSends`, `NodePolls`, `CoordTx` and `Clock`.
- `radio_posix.c`, `tcp_sock.c`, `net_sock.c` and the other files of the simulator: sockets of the host, whose losses and delays
  `RadioMedium` and the server of `HubTcp` have anyway.
- Encryption, packet formats, checksums: data. `crypt_posix.c` (AES) is a pure function with test vectors.
- Peripherals (I2C, PWM, ADC, LED, random numbers) and the settings in flash: register input and output.
- The ENC28J60's registers. Its read pointer, programmed with -1 when the ring of frames wraps, is not in the models: what the chip
  makes of it is not in the repository.
- The web client, contributed code that is not built in; hardware files, headers of registers, documentation.

## Plan

Done: the link, the radio driver, the hub's connection with its ring, the network under it, a device's clock and sketch, the
console's ring, the bootloader with its programmer; proofs of every invariant that a run checks but `Complete`.

What would add most next:
1. `Complete`, page by page: what flash, `rambuf` and `verbuf` hold of a page from its `e` to its comparison, without faults first.
2. That `Sketch`'s link is one that `MacLink` implements, and its hub one that `HubTcp` implements, as `HubTcp`'s network is
   `HubNet`'s by `NetStatus`.
3. `Sketch` over `MacLink` and `HubTcp` themselves in place of what they may do, if the state space allows.
