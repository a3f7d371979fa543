# A verification project for the zpsc power supply controller

The repository is the firmware of a four-channel magnet power supply controller
(PSC) on a Zynq: C on FreeRTOS and lwIP (`src/src/sw/src`), VHDL in the FPGA
(`src/src/hw/hdl`). An EPICS IOC connects over TCP, sends settings, and receives
10 Hz data, statistics and waveforms. The FPGA samples the supplies at 10 kHz,
drives the DACs, watches for faults and keeps 20 s of samples in memory.

This directory holds TLA+ models of that system, TLC runs and TLAPS proofs.

## Inventory

| Part | State | Operations | What is hard | What makes it correct |
|---|---|---|---|---|
| **PSC server** `listener.c`, `pscmsg.c`, `pscdata.c`, callbacks of `main.c` | listening and client socket, `last_rx_tick`, receive buffer, two period stamps | accept/supersede, receive, dispatch, heartbeat, periodic sends, disconnect | one thread that blocks in `select`, `recv`, `send`; descriptor numbers are reused; partial messages; three timeouts | one owner per socket, framing both ways, commands once, in order, for the current IOC; nobody waits for ever |
| **Fault logic** `fault_block.vhd`, `fault_module.vhd` | per bit a counter, `fault_reg`, latch; clear edge detector; start-up and run state | 10 kHz check, latch, mask, clear | register writes fall between any two clocks; equality with a limit that may change; pipelines of registers | lasting faults trip, nothing else does, trips stay until cleared |
| **Fault settings** `control.c`, `ps_io.vhd` | registers | messages that write them | one message may be several writes | the logic uses what the IOC set |
| **Snapshots** `snapshots.c`, `adc2ddr.vhd`, latches of `ps_io.vhd` | buffer address, per trigger latch and `TriggerInfo` | sample, latch, poll, copy, send | a circular buffer overwritten while it is read; waits counted in polls; wraps | every sample of a waveform is the one due |
| **Digital outputs** `digio_logic.vhd`, `pulse_*.vhd` | pulse and delay counters | on/off, stagger, interlock gate | restart within the delay, trips in dual mode | off at once on a trip, staggered on |
| **DAC path** `dac_*.vhd`, `*_ramp.vhd`, `Set_dac`, `Set_dacOpmode`, `write_ramptable` | setpoint, mode, ramp parameters and position, table | jump, smooth ramp, ramp table, FOFB | a command is many bus writes, samples fall between them; mode changes during a ramp; widths and rounding | a ramp ends at its setpoint without a jump, a table at its last point, the DAC sees what fits |
| **Flash settings** `qspi_flash.c`, `chan_settings`, `receive_console_cmd` | registers and scale factors; one flash page per channel | set, save, load, load at boot | two tasks run the same code without a lock; a save erases before it writes; a reset may come at any step | what was saved is what the supply starts with; a save changes nothing in force |
| **Units and flavor** `control.c`, `sadata.c`, `i2c.c`, `console.c` | scale factors, conversion factor, flavor registers, EEPROM | conversions in both directions, flavor commands, clear, test, boot | truncation, saturation, signs, register widths; a resolution that changes under a conversion; copies of factors | the IOC reads back what it set; the flavor in force is the stored one |
| **TFTP** `tftp_server.c`, `tftp_handler.c` | one handle, block number, last block, timers, the file | request, data, acknowledgement, timeout | lost, late, doubled datagrams; timers that start before the request is accepted; block numbers that wrap | files arrive intact, the handle is always given back |
| **BPC** `bpc.c`, `manchester_rx_32.vhd` | a FIFO | read 62 words | fill level | see the hazards in `PROJECT.json` |
| **Data and I/O** `lstats.c`, `discover.c`, `net_setup.c`, `sdcard.c`, ADC, EVR, FOFB | mostly none | read registers and send; bring-up; serial buses | – | – |

Interactions: `psc_run()` calls `client_msg()` (settings written to FPGA registers
over AXI) and `pscdata_poll()` (everything that is sent, `snapshot_process()`
last). The fault logic gates the digital outputs and triggers snapshots. The
console task writes the same settings at a lower priority. Interrupts of lwIP and
the FPGA run beside all of it. The console also edits the flavor EEPROM that scaling
and the DAC path depend on, and the TFTP server shares the SD card with the network
configuration read at boot.

## Modules

| Module | Models | |
|---|---|---|
| `PscServer` | the PSC server | `PscServerMC` instantiates it |
| `PscSession` | what the server promises an IOC | abstract specification, implemented by `PscServer` |
| `PscServerProofs` | theorems about `PscServer` | |
| `PscServerRefinement` | `PscServer` implements `PscSession`, proved | extends `PscServerProofs` |
| `Interlock` | fault logic, its wiring and its settings | `InterlockMC` |
| `InterlockProofs` | theorems about `Interlock` | |
| `Snapshot` | snapshots, software and FPGA side | `SnapshotMC` |
| `SnapshotProofs` | theorems about `Snapshot` | |
| `Settings` | registers, flash pages, the two tasks that use them, resets | `SettingsMC` |
| `SettingsProofs` | theorems about `Settings` | |
| `Scaling` | engineering units, FOFB scale factor, hardware flavor | `ScalingMC` |
| `ScalingProofs` | theorems about `Scaling` | |
| `Dac` | setpoint commands and the FPGA's setpoint path | `DacMC` |
| `DacProofs` | theorems about `Dac` | |
| `Tftp` | the TFTP server, its clients and the network between | `TftpMC` |
| `TftpProofs` | theorems about `Tftp` | |

`Settings` and `Scaling` cut the same code along two lines: `Settings` takes a value
as it stands in a register and follows it through flash, tasks and resets;
`Scaling` has the save and the load as single steps and follows what the value
means. `Interlock` has the fault messages again with the clock edges between their
bus writes. The console runs `chan_settings()` at a lower priority than the network
thread; where a message is more than one read or write, it is the console's that is
cut in two, in each of the three modules.

### PscServer

`pc` is the place `psc_run()` has reached; each action is one return of a blocking
call, or one stretch of code between two of them. The order is that of the code:
`Select`, `accept_client` (with the greeting of `client_event()` as sends of their
own), `RecvCheck`, `RecvHead`, `RecvBody`, `client_msg`, `Heartbeat`,
`pscdata_poll`, then `SendUnit` for each part of each message queued. Every call
may fail: `SelectError`, `AcceptError`, `RecvError`, `SendError`.

Sockets are kept as lwIP does: a descriptor number (`Fds`) and the connection it
stands for at the moment (`sock`), so that reuse of numbers is visible. A stream is
a sequence of units, a header or a part of a body; an IOC writes units one at a
time and may stop or vanish at any point. What the IOC is sent is followed by its
parser's state (`view`).

Time: every comparison in the code is "now - stamp >= period", so the model keeps
ages, held at the period. `Tick` happens only where the thread is blocked or in a
command handler, and a blocking call ends at its timeout.

External, modelled as the code uses it: lwIP, the IOC.

### Interlock

All processes of `fault_block` run on one clock: `Trigger`, `Shift` and `Sample` are
the clock edges with the 10 kHz trigger, without, and with `ten_khz_pulse`; each
computes all registers from their old values, as VHDL does. `Bits` is the part of
the fault word an instance follows: bits do not interact, except that 3 and 4
share park and the setpoint flag. Status inputs and threshold comparisons are
chosen freely at each sample. `chan_settings()` is `WriteOn1`, `WritePark`,
`WriteMask`, `WriteLimit`, `WriteClear`; a bus write takes more than a clock
(`bus`). A fault clear comes from the network thread or from the console and is one
`AxiWrite` for each channel in main dipole mode; the network thread's may fall
between those of the console. `SetMainDipole` is the console's switch of that mode.
Counters wrap at `CntMod`, 2^16 in the code.

`asked` (clocks since a clear, a mask write or a switch of the mode), `crossed` (the
last clear message was cut in two, or the mode changed since), `streak` and `since` (samples a
condition has lasted, and has lasted since the last clear request), `overrun` (in
this streak and since the last clear a limit was written below the running counter)
and `qual` (faults that lasted longer than their limit since the request) record
what happened, for the properties; no action reads them.

### Snapshot

A buffer address is its slot number. `SampleStart`/`SampleEnd` are adc2ddr's burst,
`Latch` a trigger, `Poll` one `CheckforTriggers()`, `SendWfmData` one waveform. What
a slot holds is not stored: it follows from the number of samples since the
trigger (`Held`). The length of a poll is measured in samples, `SMin`..`SMax`;
`TimingAssumption` bounds the longest by the buffer and says nothing of the shortest,
so that a waveform may be sent before its last samples were taken. `SnapshotIntact`
speaks of the samples that were, `SnapshotComplete` of whether all were (see the
bounds and the findings).
EVR triggers are detected but never sent, as the code says.

### Settings

`live` is what is in force (registers and `scalefactors[]`), `flash` the page at the
start of each channel's sector. The network thread and the console are both in
`chan_settings()`; `Step` is one of its calls (`QspiFlashEraseSect`,
`QspiGatherData`, `QspiFlashWrite`, `QspiFlashRead`, `QspiDisperseData`), with the
console running only while the network thread waits. `StartTransfer` puts the
console into the middle of a flash function, where the network thread may cross it:
the driver then refuses a transfer or the chip ignores it (`Outcomes`), nobody looks
at the return value, and a poll may never end (`AfterPoll`). Programming only clears
bits (`Programmed`). `Reset` may come at any step and leaves anything in a sector
that was being erased or written; `InitSettingsfromQspi` is the load at boot.
`saved`, `lost` and the `hit` of a task are history.

### Scaling

One setting is followed, of a kind chosen at the start: a gain, an offset or a
threshold of a DCCT or a 16-bit signal, a count limit, the FOFB scale factor, or
the flavor bytes; settings do not interact except through the scale factor and the
resolution, which are there for each. `Counts` is what `chan_settings()` may write for
a value: quotients are floats, which may cross an integer before they are truncated
(`Quotients`; at most 1/`Ulps` of a count, an eighth for 2^19 counts), conversions to
integers saturate at 32 bits, gains to unsigned ones. `Working` is what the FPGA takes
of the register, 24, 20 or 16 bits, `ReadOut` and `Reported` what `sadata_send()` makes
of it, as a fraction.

A message of the network thread is one step. The same messages from the console
(`ConsoleSet`, `ConsoleFactor`, `ConsoleEnter`) read and convert in one step and write in
another (`ConsoleWrite`, `ConsoleScale`, `ConsoleMode`). `SetByte`,
`set_polarity` and `SetPercent` are the console's flavor commands; each ends in
`ReadHardwareFlavor()`, which is two steps (`FlavorRegisters`, `FlavorGlobals`)
because a message may be converted between the register and the factor.
`Overwrite` is one byte of the EEPROM's clear or test. An erased flash word is NaN
as a scale factor (`None`).

### Dac

`Set_dac` computes what `Calc_WriteLinearSmooth()` computes and then takes one step
per bus write (`WriteParam`, `WriteSetpt`); `WriteRamptable` and `WritePoint` do the
same for a table, `SetGain` and `SetOffset` are the calibration messages. A command is
carried out before the next one starts. `Sample` is the 10 kHz step of multiplexer,
gain and offset, smooth ramp and table player, all from their old values. The idle
ramp's watch on the setpoint register is part of the write, since the FPGA's clock is
faster than the bus. Fixed point numbers are integers in units of 1/`Frac` bit; a slope
is any integer that `llroundf()` may make of a float of `Signif` (`Near`). `Wrap20`,
`Resize20` and `GainOffset` keep the widths, for both sizes of DAC.

A ramp starts at the value *behind* gain and offset (`dac_chan.vhd:159`), while the
multiplexer's output is in front of them: a calibrated channel makes a step of the
correction at every start of a ramp. `RampSmooth` allows this step and no other.

The table's address and length have `AddrMod` values, 2^16 in
the code, and the address wraps: with the largest length the player never ends.
`OwnWords` tells apart the channels whose 64-bit slope is made of their own two
registers.

### Tftp

`recv()` is one action per kind of datagram and `tftp_tmr` one firing of the timer;
both run on lwIP's thread and do not interleave. `timers` counts pending
`sys_timeout()` entries, since a request starts one before it is looked at and
`close_handle()` takes only one away; lwIP's pool of timeouts is taken to have room.
Opening, reading, writing, closing and memory may fail at every use. What has been
written is in the file as the open handle sees it; the directory keeps the length
found by `f_open()` (`old`) until `f_close()`, and a close that fails leaves the file at
either length (`Left`), after the last block also without that block. Clients behave as
RFC 1350 says and may repeat, give up or fall silent; the network is a queue per
direction that loses, delays and, for what the server receives, duplicates.

`starved` and `spoiled` are history, and exceptions of the two properties of files.
`spoiled` stands for two failures of the card. The last block is acknowledged before
the file is closed, and an error of `f_close()` is only printed: the client has been
told of a complete upload that is not. And a late copy of a write request opens a
finished upload again, at position 0, where a write that fails spoils the file. Every
other failing close or write takes nothing from a complete upload.

## Runs

| Run | Shows | States | Time |
|---|---|---|---|
| `server_two_iocs` | ownership, selection, framing both ways, heartbeat, refinement of `PscSession` with two IOCs | 5.3M | 2 min |
| `server_live` | a pending IOC is served, a silent one dropped | | 3 min |
| `server_silence` | *violation*: see findings | | seconds |
| `interlock_limits` | trip in time, no false trip, trip stays, for bit 7 (on1, start-up and run states), limits below the running counter, main dipole mode switched on and off | 5.5M | 2 min |
| `interlock_tasks` | the channels' clears stay in step with two tasks and switches of the mode | 1.7M | 30 s |
| `interlock_park` | *violation*: see findings | | seconds |
| `snapshot` | every sample taken is at its place and newly latched addresses are picked up, a user and an injection trigger | 1.0M | 2.5 min |
| `snapshot_short` | *violation*: see findings | | seconds |
| `settings` | saves survive resets, and change nothing in force, two tasks and two channels | 2.6M | 1 min |
| `scaling` | read back within one count of what the FPGA works with, flavor in force is the stored one, FOFB scale factor current, two tasks | 3.6M | 2 min |
| `dac` | ramps and tables land and the output does not jump, after any four commands, calibrated channel | 6.9M | 2 min |
| `tftp` | files intact, a timer watches every transfer, the handle is given back | 1.6M | 2.5 min |

Bounds.

* *Server.* Two connections and two descriptors are enough for every takeover and
  reuse the code can meet, since it holds at most two descriptors at a time and a
  third connection can only wait. Two messages of two parts each show a read that
  stops short or runs over into the next message; an empty, an oversized and any
  number of messages and of waveforms are covered by the proofs, which hold for
  all lengths. Periods of one or two ticks keep all orders of expiry.
* *Interlock.* `CntMod` is small so that counters wrap within the run; limits go up
  to `CntMod - 1`. Bit 7, the richest condition, is followed in `interlock_limits`, bit 3
  in `interlock_park`; the others share `Counts` and the latches with them and differ in
  a condition the environment chooses. Two channels with fault bits are left to the
  proofs, which hold for any number: `interlock_tasks` follows no fault bit, for
  `DipoleInStep` is about the clear registers alone. History counters stop beyond every
  value the properties compare.
* *Settings.* Two channels and one member of the page: members are written and read
  together, channels meet only in the flash driver. The proofs drop both bounds.
* *Scaling.* A value of each sign, of which one fits an offset at the finer resolution
  and one does not, both signs of the scale factor, a percentage that fits a byte and one that
  is cut to it; the factors leave remainders, so that truncation and the rounding of
  floats show. DCCT thresholds, which are cut to the width of the register where those of
  16 bits saturate, and offsets of 16 bits, which know one factor where those of the DAC
  know two, are left to the proofs.
* *Dac.* Four commands (`MaxCommands`) are enough to leave smooth mode, move the
  output, come back and ramp, or to load a table, change its length, and run it. Words
  of 6 bits with 4 fractional bits, the 20-bit path (the 18-bit one is in the proofs); a
  gain of 3/4 and an offset that comes and goes; one setpoint inside and one beyond
  the limit; one table of the maximal length with a point to be limited, one too long;
  a length that wraps in the length register.
* *Tftp.* A file of `BlkMod` blocks, so that the block number wraps in it, over an old
  one of one block; two datagrams on the way per direction, one repeated or doubled. A transfer times
  out at the second tick (`Limit` is 0), between which any datagrams may come.
  `HandleReleased` rests on the bound `MaxExtra` as well: a client that sends for ever
  keeps the handle for ever.

For `Snapshot`, with w = posttrigpts / 1000 polls of wait, a trigger can wait for
w + 1 polls behind an active one and then for its own, so no sample that was taken is
overwritten when

    (2w + 2) * SMax + pretrigpts + 1 <= N.

This is `TimingAssumption`, for which `SnapshotsIntact` proves that it is sufficient
for every N, window and number of triggers. `snapshot` has polls of one or
two samples, windows of two and N = 11, exactly what the user trigger
(w = 1, pretrigpts = 2) needs. For the program (N = 200,000, pretrigpts = 50,000,
w = 50) it says that polls may take up to about 1,470 samples, 147 ms, on
average; loops that block in sends for longer than that are beyond what the code
handles, and nothing in it detects them.

Nothing is assumed of the shortest poll. When w polls bring fewer than the
post-trigger samples sent, the end of the waveform is older data. This is what the
program does (see the findings): `pscdata_poll()` keeps the loop from being faster
than 10 Hz, but 100 ms are 996 samples at 9.961722 kHz. `snapshot_short` has polls of 3
samples that stand for 4 and a buffer that satisfies `TimingAssumption`. The injection
trigger waits 8 polls for its 1,000 samples and has room.

Fairness. `server_live` assumes that the network thread runs (WF of `Server`), that
time passes (WF of `Tick`) and that `select()` does not fail for ever (SF of
`Select`); IOCs are under no obligation. FreeRTOS gives the first two to the
thread, which has no equal to starve it; the third is lwIP's. That `client_msg()`
comes to an end is part of the first: a poll of the flash chip that never ends, as
`Settings` shows it for two tasks in the driver at once, would stop the server too.
`snapshot`
assumes the 10 kHz clock and the network thread. `tftp` assumes only that lwIP runs
its timers (WF of `tftp_tmr`): clients and network may stop at any point.

Deadlock is checked in every run but `tftp`, where the clients may be through and the
server idle.

## Findings

* `server_silence`: the documentation promises that 5 s without a message close the
  connection. A message that arrives in parts, each within the receive timeout,
  keeps the connection and the whole network thread for as long as it lasts.
* `interlock_park`: channel 2's fault block gets channel 1's park signal.
* `snapshot_short`: a snapshot waits 50 polls of 100 ms for 50,000 samples, "each
  trigger is 10kHz", but `main()` sets the trigger to 9.961722 kHz. 50 polls bring 49,808
  samples and the part of a poll that passed before the trigger was noticed; when that
  is short (about one trigger in five) up to 192 samples at the end of the waveform
  are those of 20 s earlier.

Also seen in the models, without runs of their own, and kept as hazards at their lines:

* `Set_dac()` keeps negative setpoints from a unipolar channel but looks at the polarity
  bit of the next channel (`Setpoint`); the FPGA's own clamp behind the gain then holds
  the output at 0 while the ramp is played.
* The FPGA's gains are signed, "range -8 to 7.99999", but `chan_settings()` converts the
  float to an unsigned word: a negative gain becomes 0 (`Gain`).
* A ramp to the lowest value of a 20-bit DAC may land a fraction of a bit below it, for
  its slopes are rounded; `resize()` then makes -1 of it (`Resize20`), and the output
  steps from the full negative value to about 0. `RampSmooth` excludes such ramps.
* A ramp of a calibrated channel starts with a step of the correction (`Step`).
* Gains from 8 on and offsets and count limits beyond their field lose their high bits;
  `ReadBack` speaks of values that fit. The count limit of the DCCT fault is driven by no
  line of `ps_io.vhd`. The low word of channel 2's `dy_per_pt` is channel 1's
  (`DyPerPt`).
* Loading settings from flash in FOFB mode leaves the scale factor register behind, as
  does a message that replaces the factor under the console's unwritten scale;
  `FofbScaleCurrent` excludes both.
* A ramp table length of 65535 makes the player go round the table for ever.
* An upload is acknowledged before its file is closed and does not truncate the file it
  replaces, and `send_data()` without memory has already moved the block number on;
  `UploadIntact` and `DownloadIntact` say so.

## Proofs

`PscServerProofs` proves, for any sets of connections and descriptors, any lengths
and any timeouts allowed by `ServerAssumption`:

* `TypeCorrect`: TypeOK;
* `OneSocket`: OneOpenSocket;
* `SelectedOnly`: ReadsSelected;
* `ReceiveFraming`: InFraming;
* `SendFraming`: OutFraming.

None of them is inductive alone. The inductive invariant is

    IInv == TypeOK /\ OneOpenSocket /\ ConnInv /\ StreamInv /\ RecvInv /\ SelectInv /\ SendInv

* `ConnInv`: a connection is idle, then in the backlog once, then behind a
  descriptor, and untouched until accepted. Without it, `accept_client` could hand
  out a connection that is already open.
* `StreamInv`: the server reads behind the IOC's writing and inside messages that
  exist; needed for every read to have a message to belong to.
* `RecvInv`: outside `recvbody` the client's read position is a message boundary;
  inside, it is the header's message at the place `rxbuf` says. It is what makes
  `InFraming` survive a partial receive.
* `SelectInv`: while `client_sock` equals `selected_client`, both stand for the
  connection `select()` saw. The heart is that `accept()` cannot return a number
  that is still open: it holds because the old socket is closed *after* the new one
  is accepted.
* `SendInv`: where the IOC's parser is, for each place in the sending code.

There is one lemma per action that the action keeps IInv, with a step per conjunct
the action can disturb; `NextIInv` collects them.

`PscServerRefinement` proves on top of it `ServerImplementsSession`: PscServer implements
`PscSession`, the client being the connection behind `client_sock` and the
connections done with those that are neither idle, queued nor open. Every action
maps to Open, Refuse, Close, Execute or a stutter; `RanInv` (the read position of the
client is the message behind the last one that ran) is what makes a run of
`client_msg()` the session's next Execute. `LateHeartbeatCounts` proves
HeartbeatSparesTalker: `TalkInv` follows an iteration that select() started with a
readable client to the heartbeat check, which it reaches only through the handler
that stamped `last_rx_tick`.

`InterlockProofs` proves, for any channels, set of fault bits, limits and counter
width:

* `TypeCorrect`: TypeOK; `LastingFaultTrips`: TripsInTime; `ClearLeavesNothing`:
  NoFalseTrip; `InterlockStaysTripped`: StaysTripped; `DipoleClearsInStep`:
  DipoleInStep.

A clear request passes an edge detector of two registers and `clear_pulse` before it
takes effect, and while it is on its way (`Pending`) counter and latch may still be
those from before it. The inductive invariant therefore bounds the age of a request at
each place of that pipeline, in clocks (`RequestInv`) and in samples
(`RequestSampleInv`), and says the rest only where nothing is pending: faults are
accounted for by the history (`QualInv`), the counter is at most two samples behind
the streak and beyond its limit only after an overrun, when it has a wrap to go
(`CountInv`), `fault_reg` is latched one clock after the sample (`LatchInv`).
`TripInv` is the last register of the row. `DipoleInv` is the message half written: while
no message has crossed it and the mode is on, the channels a task has done agree with
its value.

`SnapshotProofs` proves, for any N, windows, triggers and lengths of polls that
satisfy `TimingAssumption`, an upper bound:

* `TypeCorrect`: TypeOK; `SnapshotsIntact`: SnapshotIntact.

The invariant ties three clocks together: `Placed` (a latched address lies as many
slots behind the write pointer as samples have been taken since, once around perhaps),
`FlagInv` (where `TriggerInfo` is in detect, wait and send) and `AgeInv`, which bounds
the samples since a trigger by the polls it waited, at SMin to SMax samples each:
a trigger that waits behind an active one may be one whole wait old when it is
detected. From the age at the copy, each of the two parts of `ReadDMABuf` is shown to
hold the sample due, as far as it has been taken.

`DacProofs` proves, for any channels, setpoints, factors, gains, offsets, tables,
lengths and widths within `DacAssumption`:

* `TypeCorrect`: TypeOK; `TablesLand`: TableLands, both from `DacInv`, whose `RunInv` says
  that the output of an undisturbed player is the point before its address;
* `RampsLand`: RampLands. The software computes lengths and slopes by truncating and
  rounding divisions, the FPGA sums them up in three sections. `LandInv` gives the
  partial sum of the section the ramp is in as a closed form, for the difference
  `delta` it was started with; at the end the sum of the roundings to integers is within
  half a unit for each pair of points, that of the roundings to floats within the
  ramp's height over `Signif` (`NearError`, `SlopesOf`, `SectionStep`): a sixteenth of a
  bit for the program's numbers.

`SettingsProofs` proves, for any sets of channels, settings and values:

* `SettingsType`: TypeOK; `SavesSurvive`: SavedSurvives; `SavesAreTransparent`:
  SaveTransparent.

The inductive invariant `SettingsInv` says what a task in the middle of a command may
rely on as long as its `hit` does not say the other one has disturbed it (`TaskOK`: the
sector is erased, the buffer is what is in force, the page read back is what was
written), that a crossed transfer of the console is marked, that no task is in a
command while the supply is down, and (`FlashInv`) that every sector not open
between erase and program, of a channel not marked lost, holds the last save.
`Bystander` and `StepKeeps` prove once that a step of one task leaves the other's
assumptions true or marks them; each action then only has its own record to show.

`ScalingProofs` proves, for any bytes, values, factors and widths:

* `FofbScale`: FofbScaleCurrent, with the invariant that FOFB mode is only on while
  the supply is up and that, unless `crossed`, what the console has still to write is
  the scale of the factors in force;
* `FlavorIsFresh`: FlavorFresh. It needs two places more than the property: during
  clear and test the flavor is still the stored one until the first byte is
  overwritten, and between the two steps of `ReadHardwareFlavor()` the early bytes
  already are;
* `TypeCorrect`: TypeOK. It is inductive only with the page in flash, from which every
  register may come back;
* `ReadsBack`: ReadBack. Register and flash page are `Close` to the value noted for them,
  with the factor and the resolution it was set with, and so is what the console has
  still to write; `Matched` adds that outside
  `ReadHardwareFlavor()` the conversion factor is that of the resolution, which needs
  the invariant of `FlavorIsFresh`. `CountsClose` is the arithmetic: what a division by a
  scale factor of either sign, the rounding of a float and the truncation lose.
  `SignedIs` shows that a value that fits is the same in the FPGA's field and in the
  word read back.

`TftpProofs` proves `AlwaysWatched`, Watched for any number of clients, blocks and
retries. The property is inductive together with the count of timers being a
number; what needs care is that `close_handle()` may run twice for one datagram.
Under the hypothesis Blocks < BlkMod, files of fewer than 2^16 blocks (32 MB), it
proves

* `TypeCorrect`: TypeOK; `DownloadsIntact`: DownloadIntact; `UploadsIntact`:
  UploadIntact, for any number of clients and of datagrams on the way, repeated or
  delayed for however long.

With the hypothesis a block number says which block a datagram carries, and this is
what the invariant `TftpInv` keeps of everything on the way (`InStep`). An open upload
waits for the block behind the position of the file, a download has last sent the
block of its position (`Session`, `Reading`). For uploads `UpInv` adds that the blocks
before the position are in place (`InPlace`) and that an acknowledgement of the last
block on the way is true of the card (`Told`), which is what a late or repeated one
needs to be harmless; it holds until `spoiled`. The file is never shorter than the
length in the directory, so a close that fails cuts nothing off that a finished upload
had left (`CutHolds`). Without the
hypothesis the properties are not true for arbitrary delays; that the number may
wrap within a file is checked by TLC with the bounds of the run.

Only model-checked: liveness (`PendingServed`, `SilentDropped`, `LatestReported`,
`HandleReleased`: fairness and ENABLED are beyond the prover); `RampSmooth`, which needs
the closed forms of the ramp through gain and rounding at both ends of a step;
transfers whose block numbers wrap.

## Not modelled

* The raised cosine ramp: its points come out of a CORDIC core.
* ADC scaling and averaging: feed-forward arithmetic without decisions.
* Two setpoint commands at a time: the console's `Set_dac()` cut in two by the network
  thread's would mix the parameters of two ramps.
* Digital outputs and the BPC receiver: see the plan.
* The serial converters, the event receiver, the fast feedback receiver, the clock
  chip: bus timing or vendor cores.
* `sdcard.c`, `net_setup.c`, `discover.c`: straight-line I/O at start-up or a stateless
  answer.
* Display and line editing of the console; the generated register file.

Each is listed with its reason in `PROJECT.json`.

## Plan

1. Proofs: `RampSmooth` from `LandInv`.
2. `DigOut`: `pulse_enable`, `pulse_delay`, the interlock gate and dual mode,
   composed with the trips of `Interlock`.
3. `Bpc`: the FIFO, its fill level and its reset.
