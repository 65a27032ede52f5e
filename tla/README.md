# longfi-device in TLA+

`longfi-device` is a C library that lets a battery-powered device send packets
to, and receive packets from, a LongFi (LoRa) gateway. This directory models the
library, the drivers of the three radios below it (SX126x, SX1276, SX1272), the
radio chips as the drivers see them and the client above. TLC checks small
instances; TLAPS proves every safety property they check for every value of the
constants.

Paths like `radio.c:1126` are relative to `src/radio/sx126x/`, `sx1276.c:1451` to
`src/radio/sx1276/`, `sx1272.c` to `src/radio/sx1272/`, and everything else to `src/`.

## 1. Inventory

### The parts and how they interact

```
  client (firmware)     calls longfi_*; queues RfEvents from pin interrupts;
     |        ^         dispatches them from a low-priority loop
     v        | ClientEvent_None / TxDone / Rx
  longfi.c              one static LongFiInternal_t; callbacks store cur_event
     |        ^
     v Radio_t| RadioEvents_t callbacks
  radio.c               or sx1276.c / sx1272.c: the calls of Radio_t and the
     |                  interrupt handlers (one for DIO1, or one per DIO line)
     v
  sx126x.c              SX126xSet*: one SPI command each; cached OperatingMode,
     |                  PacketType.  The SX127x drivers write registers
     v
  sx126x-board.c ...    reset, BUSY, wake-up, SPI bytes, antenna switch
     |        ^
     v SPI    | DIO edges -> RFE_DIO0, RFE_DIO1 ... in the client's FIFO
  radio chip
```

The library is not re-entrant and needs no thread: interrupts do nothing but
queue an event. The concurrency is between the microcontroller, which runs one
call at a time, and the chip and the air, which go on between any two SPI
accesses of that call. A second source of disorder is the FIFO: an event is
handled long after the interrupt, when the chip may have moved on.

| Component | State | Operations | What makes it correct |
|---|---|---|---|
| `longfi.c`, `longfi.h`, `longfiP.h` | `internal` (event, buffer, lengths), `Buffer`, last RSSI/SNR | `longfi_init`, `set_buf`, `rx`, `send`, `get_rx`, `handle_event`, `rf_test`, `get_random`; callbacks `On*` | each packet sent goes out once, unaltered, and is answered by one `ClientEvent_TxDone`; a received packet is another station's and fits the buffer; the radio sleeps when idle |
| `radio.c` | `RxContinuous`, `RxTimeout`, `SX126xRadioPublicNetwork`, `SX126x.PacketParams`, `IrqFired` | the calls of `Radio_t`, `SX126xRadioIrqProcess` | every call returns; no interrupt is lost; the interrupt mask lets through what the caller waits for |
| `sx126x.c` | `OperatingMode`, `PacketType`, `ImageCalibrated` | one function per chip command | the cached mode and modem are the chip's |
| `sx126x-board.c`, `board.c` | antenna switch | reset, `SX126xWaitOnBusy`, wake-up, SPI; timers, which are empty functions | never waits for a chip that sleeps; the switch is off while it sleeps |
| `sx1276.c`, `sx1272.c` | `Settings`: `State`, `Modem`, the LoRa and FSK parameters, `FskPacketHandler`; `RxTxBuffer` | the calls of `Radio_t`; `OnDio0Irq` to `OnDio5Irq`; `OnTimeoutIrq` | `Settings` follow the chip; the end of what the radio does is mapped to DIO0 and unmasked; signal, errata and time on air agree; FSK packets longer than the FIFO go through whole |
| `sx1276-board.c`, `sx1272-board.c` | none | reset, initial registers, power amplifier, antenna | the chip starts from known registers |
| the chips (hardware) | modes, interrupt flags and masks, DIO lines, data buffer or FIFO, modem | commands; end of transmission, reception, timeout | assumed, see 3 |
| `radio.h`, register maps, build files, documentation | none | | the interface, and what the client is told |

### What is hard

- *Between two commands.* `SX126xRadioIrqProcess` reads the interrupts, clears
  all of them, and reads the payload later (`radio.c:1125-1156`); the chip may
  latch an interrupt, or receive another frame, in between.
- *Stale events.* DIO lines are edge triggered and their events wait in a FIFO. When
  the handler runs, the radio may be asleep, transmitting or reconfigured. The
  SX127x handlers decide by `Settings.State`, not by the flags, what happened
  (`sx1276.c:1451`).
- *One data buffer.* Both base addresses are 0 (`radio.c:506`): a frame received
  and a frame to be sent overwrite each other. The same on the SX127x.
- *One mask and one mapping.* Transmission, reception, activity detection and
  random numbers each set the interrupt mask and what DIO0 shows
  (`sx1276.c:1101`), and leave them to the next.
- *Caches.* `OperatingMode`, `PacketType`, the network flag, `Settings.Modem` and
  `Settings.LoRa` are beliefs about the chip. Waking it, switching its modem,
  choosing the branch of a handler and computing the time on air depend on them.
- *A FIFO of 64 bytes* for FSK packets of 255, refilled and drained from interrupts
  (`sx1276.c:1668`).
- *Unbounded waits.* `SX126xWaitOnBusy` (`sx126x-board.c:89`) has no limit, and a
  sleeping chip holds BUSY high.
- *Restarts.* The microcontroller forgets everything and the chip goes on.
  `SX1272Reset` does not even reset the chip (`sx1272-board.c:126`).
- *No timers.* `board.c` leaves the timer functions empty: every timeout in the
  drivers that relies on one never comes.

`PROJECT.json` lists each hazard at its line, with the properties aimed at it.

## 2. Modules

| Module | Models | Extends |
|---|---|---|
| `RadioFrames` | the frames in play | |
| `SX126xChip` | the SX126x, DIO1 and the client's FIFO of events | `RadioFrames` |
| `SX126x` | `radio.c`, `sx126x.c`, `sx126x-board.c` under an arbitrary client of `Radio_t` | `SX126xChip` |
| `SX127xChip` | the SX1276 and SX1272, their DIO lines and the client's FIFO of events | `RadioFrames` |
| `SX1276`, `SX1272` | what the two drivers do differently or alike: the script of every call and handler, register numbers, time on air | |
| `SX127x` | the drivers `sx1276.c` and `sx1272.c` under an arbitrary client of `Radio_t` | `SX127xChip`; instances of both |
| `SX127xConfig` | the registers that shape the LoRa signal beside `Settings` | instances of both |
| `FskPacket` | the FSK packet handler of the SX127x, byte by byte | |
| `LongFiLibrary` | `longfi.c` and the bookkeeping of its client, whichever radio is below | `RadioFrames` |
| `LongFi`, `LongFi127x` | `longfi.c` on the one driver or the other, with a client that follows the documentation | `SX126x` or `SX127x`; `LongFiLibrary` |
| `LongFiService` | abstract: what an uplink device promises | |
| `MC*` | values of the constants for TLC | |
| `SX126xProofs`, `LongFiLibraryProofs`, `LongFiProofs`, `SX127xProofs`, `LongFi127xProofs`, `SX127xConfigProofs`, `FskPacketProofs` | theorems | the module named, and the proofs of what it is built on |
| `LongFiServiceProofs` | theorems: `LongFi` implements `LongFiService` | `LongFiProofs` |

`LongFi` and `LongFi127x` implement the same `LongFiService`.

## 3. How the model corresponds to the code

**Calls are scripts.** A call of `Radio_t` is a fixed sequence of driver
commands: `SX126xRadioSend` is `SendScript = <<"Configure", "DioIrqTx",
"PacketParams", "WriteBuffer", "SetTx">>`. Starting a call sets `script` and the
host variables the call assigns; then each command is one action that takes
itself off the script, and the chip may act before any of them. The next call
starts only when the script is empty. Interrupt handlers are scripts too, since
the client runs them from its main loop.

**SX126x commands.** A command that goes over SPI passes `SX126xCheckDeviceReady`
(`sx126x.c:131`): if the driver believes the chip asleep it wakes it and turns the
antenna switch on; otherwise it spins on BUSY. The action `CheckDeviceReady` is
*disabled* while the driver would spin, so a hang is a script that never moves on.
`SetTx` and `SetRx` set `OperatingMode` before the check, the others after it, as
in the code. Commands whose data no property tells apart (power, frequency,
modulation, TCXO, calibration, register accesses) are all `Configure`.
`ModemLora` includes the sync word that `SX126xRadioSetModem` restores.

**SX126x handler.** `GetIrqStatus` copies the latched interrupts to `irqRegs`;
`ClearIrqStatus` clears all that are latched by then; each `Irq*` action is one
branch, and `IrqSkip` a branch not taken. `IrqFired` is not a variable: only
`SX126xRadioOnDioIrq` sets it, and processes it at once.

**SX127x drivers.** The two files differ in few places, and `SX1276` and `SX1272`
hold one definition per place: the script of each call and of each handler, given
`Settings.State` and `Settings.Modem`. `SX127x` picks the one of `chip` (`Pick`) and
has one action per step of a script, the same for both. A step is the register
accesses up to the next one the properties can tell apart: `SetOpMode`, `SetModem`
(sleep, flip `LongRangeMode`, reset the mapping, leave `State`), the interrupt mask
with its mapping (`IrqsTx`, `IrqsRx`, `IrqsCad`), the write of the FIFO. The handlers
of DIO0, DIO1 and DIO3 are scripts chosen when the event is *dispatched*, as in the
code; `CrcError` is the branch that ends a handler early.

**The LoRa signal.** `SX127xConfig` has the registers (`regs`) beside their copy
(`settings`), and one action per call, since nothing happens in between that could
disturb them. `ConfigRegs`, `ConfigSettings`, `RxRegs` (errata 2.3), `TimeOnAir` are
the functions of each driver, widths included: the symbol count wraps at 2^32, which
is the value `Absurd`. Restarts keep the registers and lose `Settings`.

**FSK packets.** In `FskPacket` the bytes of a packet are their indices and the FIFO
an interval of them, possibly behind the length byte, so that "whole" means every
byte, once, in order. One action per branch of a handler; the chip takes or brings
one byte at a time; a byte that arrives at a full FIFO is lost, and the packet may end
without it. `EndsReception` includes what the code does by hand after a
reception, and `Dispatches` the early `PayloadReady` of errata 3.1.

**Library.** Each `longfi_*` action is the function of that name.
`longfi_handle_event` clears `cur_event` and starts the handler; the callbacks
store an event; when the handler is through, `HandleTxDone` (which puts the radio to
sleep) or `HandleReturn` is `_handle_internal_event`. `tx_len` and `tx_cnt` are set
to the same value and nothing changes them, so the branch that sends another
fragment is dead code and has no action. The client's own bookkeeping (`sending`,
`airings`, `heard`, `asked`, `rxEvents`) is history that no code reads: it only
serves to state properties and to keep the client to its documentation.

**Client.** It initialises first, sends one packet at a time and calls nothing but
`longfi_handle_event` while one is out (`README.md:72`), lends a buffer only when the
library has none, and fetches a packet only after `ClientEvent_Rx`. With
`PromptClient` it fetches it before it dispatches the next event. In which order it
does anything else, and how long an event waits, is left open. On the SX127x it may
also be `Polite`: it dispatches what waits and asks `GetStatus`, which `longfi.h`
exports through the radio, before a call that uses it. The documentation does not
ask for it; `EarlyTxDone` shows why it matters.

**Chips.** Not part of the repository; stated from how the drivers use them.
The SX126x latches an interrupt only if the mask lets it through; DIO1 is high while
a latched interrupt is unmasked. The SX127x flags an unmasked LoRa interrupt; a DIO
line shows the flag it is mapped to. The board captures rising edges of the lines
that are `Wired`. Sleep keeps the SX126x's configuration and not its data buffer;
on the SX127x it empties the buffer and lets nothing be written in LoRa
(`sx1276.c:847`). Whether latched interrupts survive it is left open. A header error
may or may not end a reception. A reset restores GFSK and the private sync word. At
power on the SX126x may be asleep, in standby or still transmitting, and the SX127x
is in standby with the registers of its reset. A change of the SX126x's modem to GFSK resets the sync word, as `radio.c:539` says. Two frames
are in play: those the device sends (`TxFrames`) and those of others (`RxFrames`);
`Garbled` stands for one whose checksum is wrong and `NoFrame` for a buffer nobody
wrote.

**Restart.** `Restart126x`, `Restart127x` and `Restart` put every static variable
back to its initial value, at any moment, also in the middle of a call; the chip and
the antenna switch keep their state.

## 4. Runs that pass

| Run | What is allowed | Checked | States |
|---|---|---|---|
| `Uplink` | SX126x: send, RF test, second initialisation; fair | `DozesUntilCalled`, `TxDoneNotLost`, `PacketProgresses`, `ServiceLive` | 398 |
| `Device` | SX126x: send, receive in any mode, random numbers, second initialisation, restarts | `TypeOK`, `EdgeNotLost`, `TransmitsThePacket`, `AntennaFollowsSleep`, `TxDoneUnmasked`, `PacketFits`, `ServiceSafe` | 3.1 million |
| `Driver` | SX126x: every call of `Radio_t` in any order, restarts | `DriverTypeOK`, `NeverStuck`, `EdgeNotLost`, `PacketTypeTracksChip` | 2.0 million |
| `Driver127x` | SX1276 or SX1272: every call of `Radio_t` in any order, second initialisation, restarts | `DriverTypeOK`, `ModemTracksChip`, `SignalsItsEnd`, `FifoWrittenAwake` | 3.4 million |
| `Device127x` | SX1276: a polite client that does everything `Device` does, and the RF test; fair | `TypeOK`, `TxDoneNotLost`, `TransmitsThePacket`, `TxDoneEarned`, `PacketWasReceived`, `PacketFits`, `PacketProgresses`, `ServiceLive` | 10991 |
| `Config127x` | SX1276 or SX1272: configurations, tunings, receptions, restarts in any order | `ConfigTypeOK`, `SignalConsistent`, `SpursAvoided`, `ChannelKept`, `AirTimeExact` | 13 517 |
| `FskPacket` | SX127x: FSK packets sent and received, fixed or variable length, single or continuous, wrong checksums; fair | `FskTypeOK`, `SentWhole`, `ReceivedWhole`, `NeverStarves`, `SendProgresses`, `SendEnds` | 1.3 million |

What they show:

- **An uplink device does what it promises**, on both families of radio. `LongFi`,
  restricted to sending, and `LongFi127x` implement `LongFiService` with its
  liveness: one transmission of exactly the packet given, then one `TxDone`, always.
  The refinement maps the status to `booted`, `sending` and `airings`.
- **On the SX126x a device that also receives keeps the safe half of it**
  (`ServiceSafe`): it never sends the wrong bytes, twice, or with the wrong modem,
  even when an event is left in the FIFO, even across restarts. `TransmitsThePacket`
  holds because `SetTxConfig` goes to standby before `SX126xWriteBuffer`: an event
  handler cannot run in between, and no reception can. It loses the live half, see 5.
- **On the SX127x it keeps both halves** if the client is polite, and what it receives
  is what another station sent, all of it if the buffer lent has room
  (`PacketWasReceived`); a longer packet is cut to the buffer, see 5. The polite client closes the gap
  between an interrupt and its handler, which the handlers of the SX127x, reading no
  flag, cannot close themselves.
- **A packet announced fits** (`PacketFits`): until the client fetches it,
  `rx_len` never exceeds the buffer lent, also when another event, a second
  buffer or a restart comes in between, as long as the client fetches before it
  dispatches the next event.
- **DIO1 of the SX126x is never lost** (`EdgeNotLost`). This is why clearing *all*
  interrupts, also unread ones, is the lesser evil: clearing only those read would
  leave the line high without another edge, and the radio mute for good. The mutant
  `ClearIrqsRead` does just that.
- **No call hangs on a sleeping SX126x** (`NeverStuck`). `SetTx`, `SetRx` and the
  payload read never wake the chip, because `OperatingMode` has already been
  changed when they look at it; every script has a waking command before them.
- **The SX127x drivers agree with their chip** between two calls: `Settings.Modem`,
  which chooses the branch of every handler, is the modem of the chip
  (`ModemTracksChip`), although a restart forgets the one and keeps the other, and
  although on the SX1272 `Init` resets nothing; and whatever was called before, the
  end of the current operation is mapped to DIO0 and unmasked (`SignalsItsEnd`).
  `Send` writes its payload to a chip that is awake (`FifoWrittenAwake`).
- **The LoRa signal is consistent**: the low data rate bit is set exactly where a
  symbol is longer than 16 ms, in both numberings of the bandwidths; the SX1276's
  erratum is applied for the bandwidth in use; and the time on air, computed in the
  drivers from `Settings` in microseconds and 32 bits, is Semtech's definition
  evaluated on the registers, rounded up (`AirTimeExact`, which has the definition as
  "the fewest blocks that carry the bits").
- **FSK packets go through the FIFO whole** at the sizes around a chunk, the threshold
  and the FIFO, which 63 bytes and their length byte fill (64 bytes are left out, see
  the bounds). In reception this needs that no event waits longer than 13 bytes; in transmission the
  chip is assumed to wait for a late refill, so how late a client may refill is not
  covered. A transmission is never left with an empty FIFO and no event that would refill
  it (`NeverStarves`), and no step of it goes back (`SendProgresses`).
- **No step of a packet's way to its `TxDone` is taken twice** (`PacketProgresses`): there
  are at most 22 on the SX126x and 11 on the SX127x.

### Bounds

`MaxPending`: a call starts only while fewer events wait. It bounds the client's
backlog, not the chip: events raised during a call are always queued. `Device` and
`Uplink` use 2, so one event may stay in the FIFO while the client does something
else, which is all the hazards of section 1 need; the drivers use 1, because their
calls are many and each leaves events behind anyway. The theorems hold for every
value. `TxFrames` has one packet and the RF test byte, `RxFrames` one frame:
frames are only ever copied, and one of each tells "the packet", "another
station's", "garbled" and "nothing" apart. The packets received
are two bytes long. In `Device127x` the client lends a buffer of one byte or of two, so
that packets are announced both cut and whole; in `GarbledPacket` it has two, so that it is
the whole packet that is wrong; in the other runs one, so that every packet is cut, the
case `PacketFits` is about.
`MaxRxEvents` bounds the packets a client leaves unfetched; `MaxAirings` saturates
the history counter of transmissions at 2, one more than allowed.

`Wired`: `Driver127x` has DIO0, DIO1 and DIO3, whose handlers do something in LoRa;
`Device127x` and `EarlyTxDone` have DIO0 alone, as `README.md:70` tells the client.
`Device127x` has one of the two radios only: the library uses no call in which they
differ but `Init`, and the theorems of `LongFi127xProofs` are about both. Its client
asks for single receptions (`configure_rx`): in continuous ones the chip may replace
the payload between the handler's reads, and `PacketWasReceived` fails as it does in
`GarbledPacket`.

`Config127x` has every bandwidth with the spreading factors at which a rule changes,
both ends of the coding rates and payloads of 5, 64 and 255 bytes; below 5 bytes the
unsigned sum of `GetTimeOnAir` (`sx1276.c:769`) can wrap, as it does for 1 byte at
spreading factor 12 without checksum: the proofs say exactly when. `MaxChannel` bounds the
frequency, which only `ChannelDrifts` lets grow. `RxAnyTime` lets the client listen
before it has configured anything.

`FskPacket` has the real FIFO and threshold, and the sizes 1, 14 to 17, 63, 65, 96, 97
and 255. Two are left out because they fail: a variable-length packet of exactly 64
bytes is written in one piece behind its length byte (`sx1276.c:809`), 65 bytes into a
FIFO of 64, and never comes to its `TxDone` (`NeverStarves` and `SendEnds` fail with it;
`SentWhole`, about those that do, holds); a packet of 0 bytes gets a chunk of 32. `MaxLag`: a handler leaves
at most 2 bytes above the 14 it drains and the next edge comes when the level passes 15,
so with 13 more bytes there still is an edge and with 14 there is none
(`ReceivedWhole` fails).

Deadlock is checked in all runs.

### Fairness

`Library`: a call that has started is run on by the processor. `longfi_handle_event`:
the client's loop goes on dispatching what waits, as `README.md:70-71` asks.
`longfi_get_rx` (SX127x): a prompt client fetches what it was told of.
`Transmitted`: the chip ends a transmission. In `FskPacket`, `Handlers` and `ChipSends`
are the same two. All are weak. Nothing forces the client to call, other stations to
send, or the chip to time out. The loop of `IsChannelFree` is under no fairness:
leaving it needs a busy channel, and a quiet one owes the driver nothing.

## 5. Runs that find a violation

Each checks one statement of a comment or document and shows the code departing
from it. `PROJECT.json` quotes the line.

| Run | Statement | What happens |
|---|---|---|
| `TxDoneLost` | `TxDone` says the library is ready again (`README.md:72`) | SX126x: with a reception's event queued, its handler runs during the transmission; a TX_DONE latched between reading and clearing the interrupts is lost, and the client waits for ever. The same when both interrupts are read together and the `RxError` or `RxDone` callback overwrites the event |
| `GarbledPacket` | a full packet was received (`longfi.h:84`) | SX126x: a corrupt frame arrives between reading the interrupts and reading the payload, and its bytes are delivered |
| `LostSyncWord` | the network flag is reset with the sync word (`radio.c:539`) | SX126x: `SetPacketParams` switches the modem without resetting it |
| `EarlyTxDone` | the full transmit is complete (`longfi.h:83`) | SX127x: the event of a frame received before `longfi_send` and dispatched after it is announced as the packet's `TxDone`, and the radio put to sleep in the middle of the transmission |
| `ChannelDrifts` | `SetChannel` sets the channel frequency (`radio.h:124`) | SX1276: each reception before the first configuration listens 7810 Hz higher than the one before, since the shift of errata 2.3 is stored as the channel |

Other departures met while modelling, which have no run:

- *Library.* An event dispatched after `Sleep` wakes the chip, and only a `TxDone` puts
  it back to sleep (`longfi.c:73`, `:258`). A packet sent before the reception's event
  was dispatched overwrites it, and is delivered as received. A second
  `ClientEvent_Rx` before the first was fetched: the second `longfi_get_rx` returns a
  length and a NULL buffer. A packet longer
  than the buffer lent is cut to it (`longfi.c:311`) and announced with the length that is
  left: nothing tells the client that this is not the "full packet" of `longfi.h:84`.
  `Rx( 0 )` ends with the first frame, so `longfi_rx` stops
  listening after it (`radio.h:274`). `longfi_rf_test` sends one byte once
  (`longfi.h:154` says continuously). A transmission that outlives a restart leaves an
  event that can swallow the next `TxDone`.
- *SX126x.* `SetSleep` turns the antenna switch off and then `CheckDeviceReady` turns it
  on, if the radio sleeps already (`sx126x.c:136`); the library never does that.
  `IsChannelFree` never ends on a free channel (`radio.h:130`), and no continuous wave
  times out (`radio.h:286`), since the timers do not run. `SX126xRadioRandom` leaves the
  interrupts on (`radio.h:143`). A second `SX126xRadioInit` resets the chip's modem and
  not the cached `PacketType` (`sx126x.c:44`).
- *SX127x.* A single reception that times out does so on DIO1, which the client does
  not capture: `State` stays `RF_RX_RUNNING`. `RFE_DIO1` is dispatched to the handler of
  DIO0 (`longfi.c:216`). A single FSK reception sets `RF_IDLE` and leaves the receiver on.
  A continuous wave leaves its data mode and mapping behind. `SetModem` puts the chip to
  sleep and leaves `State`. `OnDio3Irq` never leaves `RF_CAD`. Frequency hopping once on
  is never turned off. The 500 kHz optimisation is set by `SetRxConfig` and not by
  `SetTxConfig`. An unknown FSK bandwidth or a LoRa bandwidth above 2 ends in an endless
  loop.

## 6. Proofs

`tlapm` checks the eight modules named `*Proofs`. They hold for every set of frames,
every choice of operations, every buffer, every configuration, every FIFO and every
bound, within the hypotheses given below.

| Theorem | Says |
|---|---|
| `DriverTypeCorrect` (twice), `LongFiTypeCorrect`, `LongFi127xTypeCorrect`, `ConfigTypeCorrect`, `FskTypeCorrect` | the type invariants; among them that the answers of `GetTimeOnAir` and the byte counters of the FSK handler stay in range |
| `LongFiImplementsService` | SX126x: the safety part of `LongFiService`, as `ServiceSafe` |
| `LongFi127xImplementsService` | SX127x: the same (`P`) |
| `LongFiTransmitsThePacket`, `LongFi127xTransmitsThePacket` | what the chip transmits is the packet of the last `longfi_send` (SX127x: `P`) |
| `LongFiTxDoneUnmasked` | SX126x: a transmission can interrupt when it ends |
| `LongFiTxDoneNotLost`, `LongFi127xTxDoneNotLost` | the end of a transmission is not lost (SX126x: `U`; SX127x: `P`) |
| `LongFiPacketProgresses`, `LongFi127xPacketProgresses` | every step of the library, every event dispatched and the end of a transmission bring a packet sent nearer to its `TxDone`, and nothing takes it farther away (SX126x: `U`; SX127x: `P`) |
| `LongFi127xUplinkInvariant` | SX127x: a device that only transmits keeps to the phases of a polite one |
| `LongFi127xTxDoneEarned` | SX127x: no `TxDone` before the end of the transmission (`P`) |
| `LongFi127xPacketWasReceived` | SX127x: what is fetched is another station's packet, all of it if the buffer has room (`P`, and prompt) |
| `LongFiPacketFits`, `LongFi127xPacketFits` | a packet announced fits the buffer, for a `PromptClient` |
| `LongFiAntennaFollowsSleep` | SX126x: the antenna switch is off exactly while the chip sleeps |
| `LongFiDozesUntilCalled` | SX126x: the radio sleeps until the next call (`U`) |
| `DriverNeverStuck`, `LongFiNeverStuck` | SX126x: no command waits for a sleeping chip |
| `DriverEdgeNotLost`, `LongFiEdgeNotLost` | SX126x: DIO1 is never left high unattended |
| `DriverTracksPacketType` | SX126x: the cached packet type is the chip's, if `"Reinit" \notin Ops` |
| `DriverModemTracksChip` | SX127x: `Settings.Modem` is the chip's modem between two calls |
| `DriverSignalsItsEnd` | SX127x: the end of what the radio does is unmasked and on DIO0 |
| `DriverFifoWrittenAwake` | SX127x: no payload is written to a sleeping LoRa chip |
| `LongFi127xDriverSound` | the last three, under the library |
| `ConfigSignalConsistent`, `ConfigSpursAvoided` | SX127x: the LoRa registers agree with each other and the erratum |
| `ConfigChannelKept` | SX127x: the channel is kept, unless `RxAnyTime` |
| `ConfigAirTimeInvariant` | SX127x: for every payload length, the time on air is absurd exactly when the unsigned sum of `sx1276.c:769` wraps, and otherwise that of the signal |
| `ConfigAirTimeExact` | SX127x: it is that of the signal, for payloads of 5 bytes and more |
| `FskSentWhole` | every FSK packet that ends with `TxDone` was transmitted whole |
| `FskNeverOverflows` | no FSK packet overflows the FIFO when sent, but one of exactly its size |
| `FskNeverStarves` | the FIFO is empty in the middle of a packet only while the event that asks for the next chunk waits, if `FifoSize > 1` and no packet has exactly its size |
| `FskSendProgresses` | every step of a transmission brings it nearer to its `TxDone`, at most 770 steps away |
| `FskReceivedWhole` | every FSK packet announced was read whole (`L`) |

### Hypotheses

The theorems assume the named assumptions on constants and, where marked, one of
these. TLC shows for each that the property fails without it.

- `U`, an uplink device: `Ops \subseteq UplinkOps`, that is sends, RF tests and
  initialisations. One reception is enough to lose a `TxDone` (run `TxDoneLost`), and
  a transmission that outlives a restart leaves an event that does the same.
- `P`, a polite device or one that only transmits. The polite one (`PoliteDevice`): `Polite`; DIO0 is the only line captured, as
  `README.md:70` asks; and where restarts are allowed, the radio is an SX1276, since
  `SX1272Reset` leaves the chip as it is (`sx1272-board.c:126`) and a transmission goes
  on through `Init`. Without `Polite` there is `EarlyTxDone`; with DIO1 captured its
  event is taken for a `RxDone`; on the SX1272 a restart breaks all four properties. The
  other (`UplinkDevice`) is wired in the same way and may call what it likes, whenever it
  likes, but `longfi_rx`, and does not restart. With restarts it has to be polite: an event
  captured before the reset in `longfi_init` and still waiting when the next packet is on
  the air is taken for its end (`TxDoneEarned` fails, with `MaxPending = 3`).
- Payloads of 5 bytes and more for `ConfigAirTimeExact`: of 4 bytes without checksum or
  header, at spreading factor 12, the sum is negative in the drivers' unsigned arithmetic.
- `FifoSize > 1` for `FskNeverStarves`: half of a FIFO of one byte is a chunk of none.
- `L`, a client that is not late: `MaxLag <= FifoThresh - 2`, the chunk that a handler
  leaves between two edges, and `FifoThresh + MaxLag < FifoSize`, the room above the
  threshold. With the code's 15 of 64 the first is the sharp one (13 bytes). For a threshold of
  40 it is the second (23; TLC finds a packet cut at 24).
- `DriverTracksPacketType`: a second initialisation resets the chip to GFSK and leaves
  the cache at LoRa until the next `SetModem` or configuration.

Some theorems about `PromptClient` and `RxAnyTime` have the condition inside the box,
as the prover has no rule for a constant antecedent of a temporal formula; the others
state theirs with ASSUME.

### Arguments

**SX126x.** `EdgeNotLost` is inductive with the types. `NeverStuck` is not:
it looks at the next command only, and nothing in it says that the command *after*
that one will find the chip awake. The strengthening `Awake` says it of the whole
script: what remains is well formed (no command that needs the chip awake comes
right after `SetSleep`), and its head finds the chip awake or may wake it. It is
inductive because after every command but `SetSleep` the chip is awake
(`CommandWakes`), and the chip never falls asleep by itself (`ChipAwake`). The
inductive invariant is `DriverInv == DriverTypeOK /\ Awake /\ EdgeNotLost`. For the
packet type, `ModemInv` says what the cache holds before the chip's reset: what the C
startup code left there.

**SX127x.** The properties hold between two calls, so the invariant has to say what
each *remaining* script will establish. `WellFormed` does it with conditions on pairs
of steps: which step may directly follow which (an operation follows the mask and
mapping that announce its end), which may come anywhere later, and what a step
promises to be followed by (a mask for activity detection is not the last step).
`Tracks` says that `Settings.Modem` is the chip's modem or that the rest of `Init` will
make it so; `FskReady` that a step that counts on FSK will find it; `Armed` that the
operation that is about to start, or the one that goes on, has its mask and mapping,
unless a step that silences the radio is still to come. The invariant is
`DriverInv == DriverTypeOK /\ WellFormed(script) /\ ... /\ Tracks /\ FskReady /\ Armed
/\ FifoWrittenAwake`. Every script of both drivers is `Startable` (`ScriptsStartable`),
and taking the first step from a well-formed script leaves a well-formed one
(`TailWellFormed`).

**Library.** The lemmas are stated per *kind* of step and not per module, so that the
library reuses them: a command, the chip, the start of a call (for any script that is
`Startable`), a restart; concatenating two scripts, which is all the library adds, is
covered for those two that it makes. `LibraryInv` is about `longfi.c` alone and is
proved once, in `LongFiLibraryProofs`, over an action `LibraryStep` that both
compositions implement: `RoomForRx` keeps `rxEvents` within its bound while an event is
being handled, and `Fits` ties `rx_len` to the buffer while a packet is `Announced`,
that is from the callback until the client has fetched it. The compositions' invariant is `DriverInv /\ LibraryInv`.

**Service on the SX126x.** `TransmitsThePacket` and `ServiceSafe` say nothing about the
moments at which they are decided: when the payload is written, when the interrupts are
read. `ServiceInv` says what may be running. `BootInv`: before the reset of
`longfi_init` nothing else is under way, and while no packet is out only commands that
cannot transmit remain. `HandlerInv`: what remains of a handler tells whether it may
have read `TX_DONE`, and that it has cleared it before it acts on it. `SendInv`: the chip
transmits only the client's packet (`OnAir`); otherwise a packet that is out is being prepared, with
some number of commands of `TransmitScript` done and all that these establish in place
(`Prepared`: the standby in which no reception can touch the buffer, then the modem,
the mask, the payload), or it has been transmitted once. A latched or read `TX_DONE`, or
a `TxDone` to be told, means the last. The lemmas are again per kind of step: a command
outside a transmission, a command of it, a handler's, the chip's, the start of a call.

**Antenna.** The switch is turned on by any command that finds `OperatingMode` at
sleep, `SetSleep` included (`sx126x.c:136`). So `AntennaInv` has to exclude that
`SetSleep` is issued to a driver that believes the radio asleep: `SleepsLast` says that
every `SetSleep` ends its script and comes after a command that changed
`OperatingMode`, and that after a reset or a wake-up with the switch off the standby
comes before any command that would not wake the chip (`Wakers`). For the
`SetSleep` after a `TxDone` this rests on the handler: the callback has set it to
standby.

**Uplink.** `UplinkInv`: nothing but `TX_DONE` is ever latched, and there is exactly one
event in the FIFO while a complete transmission waits to be told, none otherwise. So the
handler that runs for it finds what it is about, and no other wakes the radio. It is
inductive only relative to `ServiceInv` and `AntennaInv`.

**Polite client of the SX127x.** `PhaseInv` is a disjunction of phases: before the first
reset the chip may do anything (`Unsettles`); then it is `Calm`, `Sends` (what remains of
`Send` says how much is in place), is `OnAir` or has been, `TellsTxDone`, `Opens` a
reception, `Listens`, or `Reads` the frame. Each phase fixes the flags, the waiting
events and what the handler will take them for, and each step leads from a phase to itself
or to the next. Politeness enters where a call leaves `Calm`: it asks that no event
waits and `State` is idle (`Heeded`). `GenuineInv` follows the bytes read to the client's
buffer, and their number: `rx_len` is the frame's length or the buffer's, whichever is less,
and `Fits` and `LendBuffer` keep the buffer from changing under an announced packet. A device that only transmits heeds this unasked (`UplinkHeeds`): by `UplinkInv`
the radio never listens and an idle one has no event waiting, since the only event
is the end of the device's own transmission, during which it makes no call.

**Progress.** `PacketProgresses` is the safety half of the liveness in `ServiceLive`, and
needs no fairness: `StepsLeft` counts the driver commands, the handler's steps and the
calls of the client's loop that separate a packet from its `TxDone`. The phases (SX126x:
`ServiceInv` and `UplinkInv`) say where a packet is, and that no handler runs for it twice
or in vain, so that the count falls with each of these steps. On the SX126x this needs
`U`: the handler of a reception, run while the packet is out, goes round without bringing
it nearer. That a step does happen is the other half, and stays with TLC.

**Refinement.** Both `*ImplementsService` show that every step maps, under the mapping
of `StatusOf`, to a step of `LongFiService` or a stutter: `longfi_init` to `Boot`, `longfi_send` and the
RF test to `Send`, the end of a transmission (`Transmitted`) to `Air`, the return of
`TxDone` to the client (`HandleReturn`) to `TxDone`, a restart to `Restart`, and all else
to a stutter. What the guards of `LongFiService` ask at each is what the invariants
provide: at `Air`, that the client waits, that this is the packet's first transmission,
and that the chip's buffer holds it; at `TxDone`, that there has been one.

**FSK packets.** `FskCounts` ties the handler's counters to the bytes in the FIFO and
on the air, and shows that `Size - NbBytes`, which `NextChunk` compares and writes, is never negative. `SendInv` says that a
transmission is `InStep`: the handler's `NbBytes` is what the FIFO has been
given, and DIO1 waits only while the FIFO is empty; or it has `Overflowed`, which only
a packet of `FifoSize` bytes does, and which never reaches `TxDone`. `NeverStarves` asks in
addition that no chunk is empty: `Fed` has the chunk positive, and the handler of DIO1 finds
an empty FIFO with bytes left to write, unless the last one has gone and DIO0 follows.
`SendProgresses` counts three steps for each byte to write or in the FIFO, the chip's and
the two edges it may raise, and one for each event that waits; the count needs only the
types. `ReceiveInv` has two parts while a packet comes in:
`LengthKnown` (the length byte is due, in the FIFO, or read with the first chunk, and the
FIFO holds exactly what follows the bytes read) and `Heard` (how full the FIFO may be, by
what waits to be dispatched: with nothing waiting it is at most at the threshold, and so
the next byte raises the edge).

**Registers.** `SignalConsistent`, `SpursAvoided` and `ChannelKept` become inductive
with `Mirrored`: once a configuration has been made, the bandwidth and spreading factor
in `Settings` are those of the registers and one of the three that a configuration can
choose. `LowRateExact` compares both drivers' rules with the length of a symbol for
every spreading factor and bandwidth.

**Time on air.** The registers' side of `AirTimeExact` says "the fewest blocks that carry
the bits" and "rounded up" and has no formula; the drivers compute in microseconds with
two divisions, on `Settings`. `Copied` (the rest of the copy beyond `Mirrored`) moves the
computation to the registers. `FewestBlocks` shows the least number to be the quotient
rounded up; `Micros` that a quarter of a symbol is a whole number of microseconds, so that
only the last division rounds (`Millis`), for each of the seven spreading factors and
three bandwidths in turn, which makes the powers of 2 constants; and `LdroSlow` that a
signal with the low data rate bit has spreading factor 11 or 12, so that a block carries
6 to 12 bits per symbol.
`Wraps` is the case of a negative sum, where 2^32 minus it is `Absurd`.

**Only model-checked**: liveness, which is out of the prover's reach: that a packet is
eventually transmitted and told (the half that `ServiceLive` adds to the proved
refinement) and `SendEnds`. Of both, the theorems above have the safety half: no step
goes back, and an FSK transmission never waits for an event that does not come.

## 7. Mutants

Every property of a passing run has a mutant: an operator next to the definition it
replaces, changed the way a plausible bug would (a payload written after `SetTx`, a
handler that clears before it reads, a missing standby, a mapping of DIO0 that
transmission does not raise, an erratum ported with the other radio's bandwidth
numbers, a last chunk forgotten). TLC finds the property violated with it.

## 8. Not modelled

- *The contents of packets*: `longfi-core` is a submodule and absent; a failing
  `lfc_transmit` is a hazard without a property for this reason.
- *Hardware access*: the bytes of SPI transfers, GPIO, delays, register-level access
  through `Radio_t`, the power amplifier and antenna switch of the SX127x boards.
- *Measurements and calibration*: RSSI and SNR, the random choice of a channel, `CheckRfFrequency`,
  `ImageCalibrated`.
- *Timers*: nothing can fire the timer callbacks, `OnTimeoutIrq` included.
- *DIO2, DIO4 and DIO5* of the SX127x: frequency hopping and preamble or sync word
  statistics, which the library never turns on.
- *FSK bit rates, bandwidths and time on air*: table look-ups without state.
- *A client that lends a NULL buffer or replaces a lent one.*

What would be worth doing next: a polite client on the SX126x. There politeness alone does
not save the `TxDone` that `TxDoneLost` shows lost: after a header error the driver believes
a single reception over (`radio.c:1232`), so that `GetStatus` says idle, and if the chip goes on
listening a frame may come in while `longfi_send` prepares its packet. Where a header
error does end a single reception, and receptions are single, it seems to be enough for `TxDoneNotLost`
and `PacketWasReceived`. Then the library in continuous reception, and the network flag of
`LostSyncWord` under clients that never switch networks.
