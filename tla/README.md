# A TLA+ model of the Zigbee temperature sensor

The firmware runs on an nRF52840 under Zephyr.  It measures an NTC resistor,
publishes the temperature over Zigbee, and is configured by a Modbus master over
a USB serial port.  This directory models it in TLA+, checks small instances with
TLC, and proves safety properties for all instances with TLAPS.

The Modbus, memory, USB and disk libraries and Nordic's Zigbee helpers are not in
the repository as source.  They are read in
`msd_zigbee_52840/zephyr/zephyr.lst`, the listing of the built firmware, which
interleaves their C source with the machine code.  Where the listing is older than
`src/src` (it has a reconnect delay of 190 s, the source 220 s) the source counts.

## Inventory

| Component | Where | State | Operations |
|---|---|---|---|
| Modbus slave | `modbus_hard.c`; `modbus.c` in the listing | `MB_USB` (`mb_state`, `eep_state`, block to save), `USB_MB_Buf`, `mh_queue` | callback of the port; `mh_task_Modbus`, `MBparsing`, `FrameParse`; `mh_Write_Eeprom` |
| Register table | `modbus_x_macros.h`; `modbus_reg.c` in the listing | constants | permission, limit and save checks |
| Flash store | `user_mem.c`, `nvs.c`, flash driver in the listing | the committed entries, `nvs_lock` | `user_mem_read_reg16`, `user_mem_update_reg16` |
| Registers in RAM | `modbus_hard.c` | `MBbuf_main` | boot (`mh_Buf_Init`), defaults (`mh_Factory`), requests |
| USB serial port | `cdc_acm.c` in the listing | ready and enable flags, receive ring, queued work | read, fill, enable; events of the bus |
| com_task | `main.c` 245-272, 347-410 | watchdog channel, Zigbee attribute | publish, `command_control`, feed |
| Boot | `main.c` 112-160, 415-500 | address, install code, role, start delay | order of initialisation; registers into settings |
| Zigbee join | `main.c` 162-243, 311-342; `zigbee_app_utils.c`, `zb_nrf_platform.c` in the listing | `zigbee_conf_state_save`, alarms, `usb_state`, the rejoin procedure, `zb_app_cb_msgq` | signals, alarms, erase, reboot |
| ADC | `io_adc.c` | `sample_buffer`, filter, `ADC_Value_T` | sample, median, filter |
| Thermistor | `measure_NTC.c` | `termo_table` | build table, convert |
| USB disk | `app.c`; `emfat.c` in the listing | the entries, `last_entry` | read a sector |

How they interact.

- The **callback** `uart_usb_interrupt_handler` runs on the USB work queue.  It
  puts a received frame into the one buffer and the one node `MB_USB` into
  `mh_queue`, or sends the reply that waits in that buffer.
- The **Modbus thread** takes the node, executes the request on `MBbuf_main`,
  enables the transmitter, and then saves the written block, waiting for flash
  and a final 1.5 s.  The callback may send the reply meanwhile.
- **com_task** looks at the command register every 3 s and runs `mh_Factory`,
  which writes both `MBbuf_main` and flash, waiting for flash as well.
- **main** loads `MBbuf_main` at boot and repairs flash; then it starts USB, the ADC
  task, registers the attribute, reads address and install code, and starts Zigbee.
- The **ADC task** puts a temperature into `ADC_Value_T` and a register every
  second; com_task copies it into the Zigbee attribute.
- The **ZBOSS thread** runs signals, alarms and callbacks one at a time.  Nobody
  sets an alarm directly: requests go through the queue `zb_app_cb_msgq`, which
  that thread empties later.  A call of com_task may come in the middle of a callback.
- The **USB status** callback leaves its last status in `usb_state`, which the
  reconnect alarm looks at; the disk thread answers the host's reads.
- **Scheduling.**  The Modbus thread (priority -2), com_task and the work queues (-1)
  and the ADC task (`K_PRIO_COOP(0)`, which is -16) are cooperative: each runs until it
  waits.  The waits are `k_queue_get`, `k_sleep`, `nvs_lock`, and the wait for a
  radio time slot in the flash driver.  main (0, `autoconf.h:312`) and the ZBOSS thread
  (3, `CONFIG_ZBOSS_DEFAULT_THREAD_PRIORITY`, `autoconf.h:75`) are preemptible: the
  others run between any two of their instructions.  The watchdog, a command or loss
  of power may reset the device anywhere.

What is hard: the node and the buffer are shared without a lock and protected
only by `mb_state` and `eep_state`; the flash waits let two writers overlap;
the result of a flash write is ignored; a reset cuts loops over registers; the
callback runs only if an event or an enable queues it; alarms are set late and
look at a state that has changed since; com_task preempts a ZBOSS callback between the
check of a flag and its setting; tasks rely on each other's delays; indices
and results have few bits; the disk's cache depends on what was read.
`PROJECT.json` lists each
hazard at its line, with the properties that would catch it.

What makes each component correct: the slave handles one request at a time, with
no mixing of request, reply and save, and always comes back; the registers stay
inside limits and permissions, and flash agrees with RAM when nobody is saving;
boot loses nothing that is good; the port loses no wake-up; com_task carries out
every command; the alarm erases only a network that was given up, and the device
never stops trying; the conversion is monotone and inside the table, and no spike
reaches it; what is published was measured, recently; the settings a device takes
from flash fit the code that uses them; the stack accepts the install code; and a
host copies whole files whatever else it reads.

## Modules

| Module | Models |
|---|---|
| `RegisterTable` | table, permissions, `Limit_Check_in_Request`, `Eeprom_Check_in_Request` |
| `NvsStore` | `ram`, the flash image `stored`, `nvs_lock`, and the loop of `nvs_write` calls that all three writers run |
| `CdcAcm` | the flags of the serial port and the events of the bus |
| `ModbusUsb` | composes the two: callback, Modbus thread, commands, boot, reset |
| `ModbusUsbProps` | the properties, the refinement mapping |
| `SlaveTransaction` | the slave as its master sees it: what it owes |
| `ModbusUsbProofs` | inductive invariants of slave and store; steps, refinement, RAM against flash |
| `ZigbeeJoin` | joining, the rejoin procedure, the request queue, the reconnect alarm, the Zigbee commands |
| `Thermistor` | `calculate_table_NTC`, `calc_temperature` turn by turn |
| `AdcTask` | nine samples, the median network comparison by comparison, the filter |
| `ComTask` | main, ADC task, com_task and watchdog in time; ages instead of temperatures |
| `SensorTable` | the rows of `modbus_x_macros.h` |
| `Settings` | what main and `io_adc_init` take from the registers at boot; the published word |
| `InstallCode` | `address_and_code_init`, with writes of other threads in between |
| `EmfatDisk` | `emfat_init`, `emfat_read`, the read procedures of `app.c` |
| `EmfatHost` | a host that copies the files and reads other sectors in between |
| `ZigbeeJoinProps`, `ThermistorProps`, `AdcTaskProps`, `ComTaskProps`, `SettingsProps`, `InstallCodeProps`, `EmfatProps` | their properties |
| `ZigbeeJoinProofs`, `ThermistorProofs`, `AdcTaskProofs`, `ComTaskProofs`, `SettingsProofs`, `InstallCodeProofs`, `EmfatProofs` | inductive invariants, lemmas, theorems |
| `MCModbusUsb`, `MCThermistor`, `MCAdcTask`, `MCSettings`, `MCInstallCode`, `MCEmfat` | tables, requests, curves and batches for TLC |

### Modbus, flash and serial port

How `ModbusUsb` and the modules it composes correspond to the code.

- **Steps.**  An action is everything a thread does from one wait to the next.
  `MBparsing(f)` is `InvalidFrame`, `FrameParse`, the start of the transmission
  and the save up to its first wait; `mh_Write_Eeprom_Written` resumes after a
  flash write, `mh_Write_Eeprom_return` after the final sleep.  One turn of the
  callback's loop is one action.
- **nvs_write** compares its datum with the newest entry *before* taking the
  lock; equal data return at once.  So each writer's loop runs from `First`
  differing register to the next (`Dirty`, `Reached`, `Loop`).  The datum is
  read through the caller's pointer after the lock is granted (`Nvs_Locked`).
  The data write and the entry write are one wait: nothing observes the state
  between them.
- **The lock.**  `k_mutex_unlock` hands the lock to a waiter (`Released`).
- **Flash failure.**  With `FlashMayFail` a write may end without its entry.
- **Reset** drops everything in RAM and may or may not complete an entry that
  was being written.  Flash starts with any contents.
- **Frames.**  A request is a record; `val[r]` is the word it carries for
  register r.  A read of 64 bytes takes no account of frames, so merged or split
  frames are `Garbled`; a chunk below the minimum length is `Short`.  A frame
  with the wrong length or byte count but a good range is `BadLength`; if its
  range is wrong too it is answered like `WriteMany` out of range.
- **The buffer** `p_mb_buff` holds a request, a reply, or contents that nobody
  will look at (`NoData`).
- **Port.**  `fifo_fill` does nothing on a suspended port, and the handler
  disables the transmitter all the same: the reply is lost, as in the code.
  `cdc_acm_reset_port` clears the flags of the bus, not the ring and the enables.
- `VERSION`, the initial value of register 0, is 0 like the rest of RAM: the
  register is read-only and no check looks at it.
- `missed` is a history variable.  It records a register whose last
  write was skipped because it equalled an entry that another thread's write was about to
  replace, and is used by no guard.

Assumptions about the table (`RegisterTable`): permissions name registers;
defaults of saved registers are inside their limits; the last register, `Reg_End`,
is neither saved nor writable (`LastRegisterAssumption`).  The last one matters:
`Eeprom_Check_in_Request` answers "nothing to save" for every block that ends on the
last register, so a block that could be written up to there would leave its saved
registers unsaved.  `Settings` extends both `RegisterTable` and `SensorTable`, so that
its run evaluates the assumptions on the actual table; `SensorAssumption` ties the two.
`BufferAssumption` says that the marks `NoData` and `Garbled` are no replies, which is
how the model tells them apart and nothing of the code.

### Zigbee

- An action of `ZigbeeJoin` is one callback of the ZBOSS thread, one request taken
  from `zb_app_cb_msgq`, one command, one USB status, or one tick.
- com_task preempts the ZBOSS thread inside a callback.  `user_input_indicate`, which
  both call, checks `is_rejoin_start_scheduled`, puts its request into the queue and
  only then sets the flag.  So its call by the reconnect alarm is two actions
  (`Recon_timer_cb_connect` with the check, `Recon_timer_cb_indicates` with request
  and flag), with commands possible in between; the flag `indicating` is the program
  counter.  Then the restart is asked for twice, and `restarts` counts the calls of
  `start_network_rejoin_ED` that wait.  Request and flag need no third action: com_task
  calls once in a tick, and a second restart request adds the same whether it
  comes before or after the first.  The header of the module says why a call of com_task inside
  any other callback has the effect of one before or after it.
- The static variables of `zigbee_app_utils.c` and its requests are the record
  `rejoin`; each function of that file is an operator from this record to the next.
- The ZBOSS stack is a binary library.  It is modelled by the signals it raises
  (`Stack`, marked external): a commissioning that succeeds or fails, a leave that
  the network or the device asks for, the loss of everything on a reset.  Every other
  signal, as the one that lets the device sleep, also ends in `rejoin_the_network`; it is
  `OTHER`, and may be raised at any time and any number of times.  A lost
  parent is handled inside the stack and raises nothing.
- Bound on signals (`Radio`): the network and the stack's own events raise a signal only
  when none waits, as a radio exchange takes longer than the handler.  The LEAVE of
  com_task's command and the first signal of the stack may stand behind another, so at
  most two wait.
- `usb_cb` stores every status: after suspend and resume the state is no longer
  `CONFIGURED`, although the host is there.
- Attempts are 1, 2, 4, ... ticks apart, as in the code.  The alarms of a callback
  are the set of their times; that two never coincide is part of what is proved (each
  request that sets the reconnect alarm stands behind one that cancels).
- `asked` is a history variable: CODE_CONNECT_BUTTON has restarted the rejoin
  procedure and set no new alarm.  `func_reset_local` is called by nobody.
- `DelayAssumption` has the reconnect alarm later than the end of the procedure:
  `main.h:37` defines it as 20 s more.

### Measuring and publishing

- `Thermistor`: the floating-point formula is any curve that does not rise; indices
  and entries have their widths; a read beyond the table yields any entry.
- `AdcTask`: one channel, as in the overlay of the board.  The conversion is any
  function.  The task ends after a failed `adc_read`, hence no check for deadlock.
- `ComTask` counts half seconds and keeps of each temperature only its age.  A
  command may take any time, also for ever.  `InitAssumption` says that loading the
  registers and starting USB takes less than 2 s.
- `Settings`: words are in flash or written by a master between two restarts; how a
  write gets there is the subject of `ModbusUsb`, so it is one step here.
- `InstallCode`: main is preemptible and reads each register once, so that the Modbus
  thread may write a block between two registers.  The stack's own check of the
  checksum, `zb_secur_ic_check_crc`, is read in the listing.  Within a checksum a word
  is the set of its bits (`Bits`, `Number`), and an exclusive or their symmetric
  difference.

### Disk

- One turn of `read_fat_sector`'s loop is an action; any other sector is one.
- The disk has three files in this firmware.  The geometry is constants:
  `SECT`, `SECT_PER_CLUST`, `FatValues`; in the firmware 512, 8 and 128.
  `VolumeAssumption` bounds the number of clusters: see `EmfatProofs`.
- Bytes are pairs of an array and an index, so that a byte of the wrong file, of
  the wrong offset or of an earlier sector shows.
- The host is external: a FAT32 driver that follows the partition table, the boot
  sector, the directory and the chain in either FAT.  Writes of a host are
  acknowledged and dropped by the code and change nothing.

## Properties

Of the Modbus slave, in every reachable state:

- `TypeOK`; among the rest, `mh_queue` never holds the node twice.  (The types of
  `Thermistor` and `ComTask` are proved, not run.)
- `OneTransaction`, `SaveExclusive`, `TxOnlyWhileSending`: who owns node, buffer
  and transmitter in each phase of a transaction.
- `NoLostWakeup`: pending work of the port always has the callback queued.
- `LimitsHold`: saved registers are inside their limits from boot on.
- `SavedUnlessMissed`: with a working flash, RAM and flash agree on every saved
  register nobody is saving, except those in `missed`.

Of steps:

- `ExceptionIsPure`: an exception reply changes no register and saves nothing.
- `BootKeepsGoodValues`: boot, cut by any number of resets, replaces no stored
  value that is inside its limits.
- `ImplementsTransaction`: the slave refines `SlaveTransaction`, with the
  phase flags mapped to the set of what is owed.

Liveness: `SaveEnds`, `CommandCleared`, `SlaveReturns`.

Of Zigbee:

- `OneReconnectAlarm`: every request that sets the alarm follows one that cancels it,
  however late both are processed.
- `QueueFits`: the ten requests of `zb_app_cb_msgq` suffice, with com_task preempting
  the reconnect alarm's callback and with the network's signals bounded by `Radio`.
  They are just enough:
  ten are reached.  On overflow `ZB_ERROR_CHECK` would reset the device.  It is a
  property of the delays too: if a commissioning could last until the procedure gives up,
  both alarms could be due at once and an eleventh request would not fit (TLC finds this
  with 2, 3 and 2 for the delays and one tick of steering).  The theorem states the
  condition: `SteeringTime + 2 < RejoinTimeout`.
- `StatusAgrees`: register 20 says whether the device is joined once no signal waits.
- `EraseOnlyAfterGivingUp`: the alarm erases a stored network only after the rejoin
  procedure has given up on it.  This holds because 220 s is longer than 200 s.  The
  exception is `asked`.
- `KeepsTrying`: a device that is not joined searches or restarts again and again.
  A user who resets it over and over is excluded: each leave postpones the alarm.

Of measuring and publishing:

- `FindsMedian`, `SpikesRejected`, `Settles`: nineteen comparisons rearrange the
  samples and find the median; four wild samples of nine never move the filter out
  of the range of the others; a steady input is reached up to three codes, from below.
- `ReadsInside`, `OnTheCurve`, `FallsWithCode`, `Terminates`: the search stays inside
  the computed entries, returns the nearest degree on the line between two of them, is
  monotone from one conversion to the next, and ends.  With the empty table that the
  limits of the step number allow, it does read behind the table, once.
- `RegisteredFirst`, `ZeroOnlyWithoutAdc`, `MeasuredStays`, `Fresh`: the attribute is
  registered before com_task writes to it; the initial 0 is published only without an
  ADC task; neither 0 nor the placeholder follows a measurement; and a value is at
  most 10 s old while both tasks run, because otherwise the watchdog restarts.
- `OnlyHangsExpire`, `KeepsPublishing`: the watchdog bites only a command of 6 s or
  more; a device that stays up publishes for ever.

Of the settings, the install code and the disk:

- `TableFits`, `ChannelUsable`, `StartsApart`, `PublishedReadsBack`: whatever flash
  held, the thermistor's table fits its array, the mask is one channel, sensors of an
  installation begin to join at least 5 s apart, and a temperature is never read as a
  label.
- `CodeInstalled`, `CodeAsSet`: the stack accepts what was read, with the checksum of
  the standard (as polynomial division), and without a write in between it is the code
  of the registers.
- `FilesArrive`, `FatIsFixed`, `ReadsInside`: files arrive whole; a sector of the FAT
  does not depend on what was read before; no procedure reads behind an array.

### The overlap of two writers

`SavedUnlessMissed` excludes `missed` because the case is real.  Let register r
hold A in flash.  A Modbus request writes B to r; its `nvs_write` waits for flash.
com_task runs `mh_Factory`; the default of r is A, so RAM becomes A, the
comparison finds A in flash and returns.  Then the first write commits B.  RAM
reads A, flash has B, and the next reset brings B back after a reset to
defaults.  The window is a flash write of a few milliseconds every 3 s, and no
document of the repository promises otherwise, so it is recorded as a
hazard and not as a finding.

## Runs

| Run | Instance | Question |
|---|---|---|
| `registers` | `Spec`; 4 registers: command, saved with limits, saved without, read-only; 3 values; 9 kinds of request; flash works | all safety and step properties and the refinement |
| `progress` | `FairSpec`; 3 registers, one saved; 4 values, so that there is a command that is neither defaults nor restart; 5 requests; flash may fail | the three liveness properties |
| `zigbee` | `Spec`; give up after 6 ticks, alarm after 7, attempts at most 4 ticks apart, steering up to 1 tick, 10 requests | the safety of Zigbee |
| `zigbee_progress` | the same with `FairSpec` | `KeepsTrying` |
| `thermistor` | tables of 5 entries, codes 0 to 5 and -1, 0, 1, 2, 5 and 6 steps | all of the conversion |
| `thermistor_signed` | the same | finding 1 |
| `adc` | all batches of two codes, one negative | all of the filter |
| `publish` | main takes 0 to 3 ticks; ages up to 24 ticks | all of publishing |
| `publish_new` | the same | finding 2 |
| `settings` | the actual table; three registers at a time differ from their defaults | all of the settings |
| `install` | two writes of blocks while main reads | the install code |
| `disk` | sectors of 4 bytes, 2 in a cluster; files of 6, 12 and 21 bytes | the disk |

Bounds and why they suffice.  The state of `ModbusUsb` is finite without any added bound:
`mh_queue` and every buffer of the code hold at most one thing.  Two saved
registers give a loop with a first, a next and a last; one with limits and one
without tell apart repair and load; three values give one that is refused, the
default, and another.  The requests contain every path of `FrameParse`: single and
block writes, broadcast, a block refused at its second register for limits and
for permission, a block that runs past the end, a read, a malformed frame.  Two
writers and one lock give every overlap; main never overlaps with them.
`progress` needs one saved register for two writers to contend.  `registers` keeps
the flash working because `SavedUnlessMissed` says so; refused writes are in
`progress`, and the proofs cover both.

`zigbee` keeps the order of the code's delays: a steering no longer than the first
interval, intervals that double and stop doubling, the procedure given up one tick
before the alarm.  That is enough for several attempts of growing distance, and for
an alarm that meets each phase.  The requests are bounded by the queue itself.

`thermistor`: five entries give a search of several turns with a pair in the middle
and at both ends; the curves contain flat stretches, and steps 5 and 6 the exact size
and one that is clamped.  The proof covers all sizes.  `adc`: a network of
comparisons finds the median of any values if it does so for two (the 0-1 principle).
`publish`: all times of the code are exact in half seconds, and `Fresh` is tight at 20
ticks, below `Old`.  `settings`: three registers at a time differ from their
defaults, as many as make up the thermistor's table, and the words tried lie at the limits and beyond them, up to the ends of 16
bits; panel and point of the other sensor range over all.  `install`: two writes give
a block before, between and behind the words, and back again.  `disk`: the files have
one, two and three clusters, the last sector full or in part, so that the FAT has
entries on each side of the one found last, and the host may read any sector between
two of its own.

Deadlock is checked except in `adc` and `install`, where the task ends and main goes
on: elsewhere a step is always possible, at least a reset or a tick.

Fairness is stated for what the code's scheduling gives.  In `ModbusUsb` it is weak
fairness of each thread and of main.  The threads of that module are
cooperative, and each waits in the kernel between its actions, so a thread that
can run is eventually run, and main as soon as they wait; a flash write ends because its driver gives up after a
time-out.  Nothing is assumed of the bus, the host or resets; hence
`SlaveReturns` allows a reply that is held up because the transmitter is not
ready.  `CommandCleared` is about a com_task that serves commands: one that could not set
up the watchdog has returned (`main.c:352-387`), and then nobody looks at the register;
`ComTask` has that case, with `KeepsPublishing` exempting it by name.
In `ZigbeeJoin` main enables the ZBOSS thread and the thread handles signals (weak
fairness); its callbacks run, a commissioning ends (`SteeringTime`) and time passes
(strong fairness).  Strong, because other signals may come again and again and disable
these for a moment each: ZBOSS keeps callbacks in a queue, so one that is due is not put
off for ever, and the signals within one tick are finitely many.  Nothing is assumed of
the network, the host or commands.  In `ComTask` time passes and who is due acts; that a command ends is not
assumed.  In `AdcTask` the task runs, in `Thermistor` a conversion goes on; what is
read and when a conversion starts is open.

Each property is broken by a mutant of the code's model, defined next to what it
mutates (`Bug_...`): half of the idle check forgotten, only the first register
of a block checked, writing while checking, a save window that is one short, a
transmitter enabled without queueing the callback, a mutex that wakes nobody, an alarm
that is not cancelled before it is set, one comparison missing, a division that
truncates, a com_task that does not wait, a search that goes only forward.

### Findings

1. `thermistor_signed`: `measure_NTC.h:21` says that a sum less than the last value of
   the table gives `TEMPERATURE_OVER`.  The filtered value is signed and
   `calc_temperature` takes it unsigned, so -1, which a single-ended input at 0 V may
   read, gives `TEMPERATURE_UNDER` (`measure_NTC.c:64`).
2. `publish_new`: the comment at `main.c:393` says that com_task gets a new measured
   value.  It takes `ADC_Value_T[0]` in any case: without an ADC device the initial 0
   becomes a temperature over the placeholder, and after a failed `adc_read` the last
   value is published for ever (`main.c:394`).

Observed, and no finding because nothing says otherwise: a command written while
`mh_Factory` runs is cleared with it (`main.c:270`); CODE_CONNECT_BUTTON restarts the
rejoin procedure without moving the alarm; an install code read during a write may be
of two codes; the partition's end is the number of sectors of the disk, although it
starts at sector 62, and the FAT is sized without its two reserved entries, which
would matter from 127 clusters on: the files take four.

## Proofs

Each is for every value of the constants that satisfies the named assumptions.

### ModbusUsbProofs

For every table, set of requests and set of values, with and without flash failures:
`Spec => []P` for `TypeOK`, `OneTransaction`, `TxOnlyWhileSending`,
`SaveExclusive`, `NoLostWakeup` and `LimitsHold`.

The inductive invariant is `IInv == TypeOK /\ Control /\ Limits`.

- `Control` adds to the four control properties: `SaveState` (`eep_state` says
  SAVE exactly while `mh_Write_Eeprom` runs; without it the end of a save could
  free another), `BootAlone` (no thread works on registers before boot is over;
  without it a request could undo a repair), and `RxHasData` (a ready receiver
  has data, so what the callback accepts is a frame).
- `Limits` adds `BootProgress`: while boot waits for the write of register n, all
  saved registers up to n are inside their limits.

`TypeOK` alone is not inductive: that the node is not queued twice needs
`OneTransaction`.  The proof has a lemma per group of actions for each of the
three parts (`...Type`, `...Control`, `...Limits`), and lemmas for the operators:
`FirstIsLeast` (a nonempty set of registers has a first one, by well-foundedness
of the naturals), `LoadedLawful`, `DoneMeansNoneRefused` (a request without
exception has no refused register).

Of steps and of the store, with and without flash failures: `BootKeepsGoodValues`, `ExceptionIsPure` and the refinement `ImplementsTransaction`;
for a flash that works (`~FlashMayFail`, which is what the property is about, and what
the run `registers` has) also `SavedUnlessMissed`.

- `Store` is added to `IInv`: who holds a datum for flash owns the lock; nothing works
  on registers before boot is over; and main waits in `nvs_write` only to replace an
  entry outside its limits.  From that `BootKeepsGoodValues` is a fact of each step.
- The refinement maps each action to a step of `SlaveTransaction` or a stutter
  (`NextTransaction`).  The step that is not simple is the parse: `ChangeIsSaved` says
  that a write that changes a saved register owes a save, and is where
  `LastRegisterAssumption` is needed.
- `Agreement` is what `SavedUnlessMissed` needs to be inductive.  That RAM and flash
  agree on a register nobody will come to is not enough: a datum already on its way to
  flash may be older than RAM.  `RegisterAgrees` says that then the other writer will
  still come to the register.  The register that falls out is `missed`.

### ZigbeeJoinProofs

For all delays, queue lengths and `SteeringTime`: `OneReconnectAlarm`, `StatusAgrees` and
of steps `EraseOnlyAfterGivingUp`.  For all delays with
`SteeringTime + 2 < RejoinTimeout` and all queues of ten or more: `QueueFits`.

- `AlarmInv`: a request that sets the reconnect alarm stands right behind one that
  cancels it, or is the first of the queue while none is set; and at most one is set.
  That at most one is set is not inductive alone: the requests in the queue decide
  what will be set.  A lemma for each function of the rejoin procedure says that what it
  appends keeps the queue guarded (`...Sound`).
- `StatusInv`: the youngest waiting signal that says anything agrees with the stack;
  signals of a leave are only those that succeeded; before the stack has started
  nothing is joined.
- `EraseInv` is about a device with a network stored that is not joined (`Stored`): it
  has not been joined since it was started, as leaving clears the network, and all its
  signals are failures (`FailuresOnly`).  `Pursuit`: while it searches, the alarm that
  gives up is set and nothing in the queue cancels it, or the queue sets it and does not
  cancel it afterwards (`Armed`); a restart by the user is under way at most once, and
  only while it waits for one.  `Later`: any reconnect alarm is due after that alarm, or
  is fresh and that alarm is in the queue.  Alarms, queue and flags are needed together:
  a request that is only queued counts, because the ZBOSS thread may take a due alarm
  first.  `AppendKeeps` and `TailKeeps` say what a request more or less in the queue
  changes; a lemma for each function (`...Pursues`) and each kind of step
  (`...Erase`) does the rest.  Where the assumption on the delays is used, is the moment
  a reconnect alarm is set (`ProcessErase`).

`QueueAlwaysFits` rests on three more invariants, on top of `AlarmInv` and `StatusInv`.

- `ScheduleInv` says which alarms can still meet.  `Will(f)` are the alarms of f that
  will be set once the queue has been processed; a lemma for each function says what it
  adds to the queue and to `Will` (`...Adds`).  `PlanInv`: only a search has an alarm
  that gives up, and when that one is due neither the reconnect alarm nor an attempt nor a
  restart is.  This is not inductive: it holds because a reconnect alarm that is no later
  than the alarm that gives up is overtaken by an attempt which will end first and
  set it anew (`ChaseInv`), except while the stack starts, when no such reconnect alarm
  exists (`EarlyInv`).  An attempt after a restart waits two ticks before it takes
  `SteeringTime`; this is where the condition on the delays is needed (`ScheduleRestart`).
- `AskInv` is about restarts that are asked for.  While com_task may still call in this
  tick, or two signals wait, the reconnect alarm is not due once a restart has been asked
  for.  So the restart is asked for twice, by both threads, only when no more than one
  signal waits.
- `RoomInv` is a potential: the requests in the queue, what the signals before
  `zb_app_cb_process` can still add (`Searching`, `Resting`, `GivenUp`, at most two
  signals by `WaitingInv`), what the alarms that are due can (`FromAlarms`, which counts
  a `user_input_indicate` under way with them), and one for com_task.  No
  callback increases the sum, and when the queue is empty it is at most ten
  (`EmptyFits`), as the alarms that add most exclude each other, and two requests for a
  restart exclude a second signal.

The condition is a condition on the ZBOSS stack: that a commissioning ends within 197 s
of the 200 s that `ZB_DEV_REJOIN_TIMEOUT_MS` gives.  With at most five ticks to give
up and four of steering, TLC finds an eleventh request in every instance that breaks it
and in no other, so the theorem asks for no more than is needed.

### ThermistorProofs

For all table sizes, widths, falling curves, steps and starts: types, `ReadsInside`,
`Bracketed`, `OnTheCurve`, `FallsWithCode`.  The invariant is their conjunction with `Falling` (the
entries fall), `AtBoot` and `EmptyTable`.  `Rounding` is the arithmetic: adding half the
divisor before an integer division gives the nearest integer.  `Bracketed`, that the
code lies between the two ends of the search, is what `OnTheCurve` rests on.

`FallsWithCode` compares two conversions.  `History` says of both that they are
temperatures `Converted` from their codes: the first entry, or the rounded
interpolation below it, with the index of the pair not fixed, because a flat stretch
of the table has several.  `ConvertedFalls` then compares the indices:
`InterpolationGrows` is the case of one pair, `TemperatureRises` and `FoundFalls` that of two.

### AdcTaskProofs

For any codes, positive or negative: `FindsMedian` and `SpikesRejected`.  TLC rests on
the 0-1 principle; the proof does not.  It sees the nine samples as three rows.
`Order` is a table of what is known before each of the nineteen comparisons;
`SortsRows`, `SortsColumns` and `SortsMiddle` go through it.  What the table cannot
say, because the comparisons in the columns forget the rows, is `Rising`: for every
value, a column holds no more larger samples than the next.  It survives a comparison
within a column, and gives at the end that the middle of nine has four samples on either
side (`ColumnsCross`).  `Shuffled`, that the array is a permutation of the
samples, carries counts from one to the other (`SameNumber`), so that a majority of five
in an interval puts the median there (`MiddleInside`) and the filter stays
(`FilterInside`).

### ComTaskProofs

For every time main may take up to its bound: types, `RegisteredFirst`,
`OnlyHangsExpire`, `Fresh`, `ZeroOnlyWithoutAdc`, and of steps `MeasuredStays`.  The invariant relates clocks:
`Race` (main registers before com_task publishes), `Window` (what the watchdog has left
against what com_task has waited), `Early` (the ADC task has measured before the first
publication) and `Ages` (what is published is as old as its last turn allows).

### SettingsProofs

For all words that a master may write or flash may hold, with the limits of the actual
table (`SensorAssumption`): `TableFits`, `ChannelUsable`, `StartsApart`,
`PublishedReadsBack`.  The invariant says that a running device took words inside
their limits, whatever has been written since.  `Rows` reads the limits of each
register off the table; the rest is arithmetic of 16 bits (`SignedAndBack`,
`UnsignedAndBack`, `PublishedTemperature`).

### EmfatProofs

For all sizes of files and geometries: `FatIsFixed` and `ReadsInside`.  `Layout` says
that the clusters of the entries follow each other; hence `OneOwner` (a cluster is of
one entry) and `LookupFindsOwner` (the search finds it from wherever it starts), so
that `TurnAddsValue` does not depend on the cached entry.  `FatsBehindFsinfo` separates
the sectors; `FromFile` says which file a sector's bytes came from.

`FilesArrive` needs both sides of the bus.  `Extents` adds to the layout how many
clusters an entry has; `Answers` says that a sector that is handed over is the right
one for its number (`RightAnswer`).  `HostInv` is about the host: what it has learned of
the geometry is true (`Learned`), the sector under way is one it wants (`UnderWay`), its
cluster is one of the file and the bytes it has are as many as the way it has come
(`Place`) and those of the file (`Copied`).  `WhereData` and `WhereFat` turn its sector
numbers back into clusters; `AnotherCluster` says that a host whose cluster ended before
the file did is not in the last one, `ChainGoesOn` that the FAT then leads to the next;
`GotGrows` appends a sector.  There is one lemma for each sector that arrives.

`VolumeAssumption` says what the volume must be like, and the tables of `app.c` satisfy
it: the label and the files fit into the first cluster of the root (4 of 128 entries);
the cluster numbers stay below the marks; and the clusters do not fill a sector of the
FAT exactly.  The last one is not idle: `emfat_init` computes the length of a FAT from
the number of clusters without the two reserved values in front, so that with 128
clusters, say, the chain into the last one would be behind the FAT.  This volume has
four.

### InstallCodeProofs

For every content of the registers, every set of blocks that may be written, any number
of writes and any address of the chip: `CodeInstalled` and `CodeAsSet`.

The invariant `CodeInv` follows the copies: `CopyLength` (two bytes at a time to sixteen,
then eighteen), `Checked` (the last two are the checksum of the others), `Installed`, and
`Copied`: while nobody has written, what was copied so far is what the registers hold.
The rest is about the checksum, for data of any length.

- `NumberOfBits` and `InvertedNumber`: a number and the set of its bits determine each
  other, and inverting the bits subtracts from 65535.  From that `StackAgrees`: the
  sensor inverts the checksum and the stack compares with the inverse of its own.
- `ChecksumIsStandard`: crc16_x25 computes the remainder by which X.25 is
  defined.  `LeftOver` is the polynomial that is left of the message after k turns: the
  register at its top, and below it what has not joined the register.
  A byte that joins leaves it the same (`LeftWhenJoined`), one turn of the inner
  loop is one step of the division (`LeftWhenShifted`), and after the last only the
  register is left, in the order of its bits (`LeftAtLast`).

The loops are recursive functions.  `LoopDefined` says that such a function satisfies its
equations, and `Induction` is induction up to a bound, as a statement about sets: both
come from the least element that a nonempty set of naturals has.

### Only model-checked

Every safety invariant and action property of the runs has a theorem.  What has none is
liveness (`SaveEnds`, `CommandCleared`, `SlaveReturns`, `KeepsTrying`, `Settles`,
`Terminates`, `KeepsPublishing`): fairness is out of the prover's reach.

## Not modelled

- **The build output.**  Nearly all lines of code of the repository are below
  `msd_zigbee_52840`: generated headers, system call tables, compiler probes.  They
  have no behaviour of their own to model, or none that this program adds; of the
  listing only the functions that the application calls are read.  The hand-written
  sources are about 1400 lines, and every one that has behaviour belongs to a
  component above.  The share of the repository's lines that a model of this
  program can stand for is therefore small.
- Below the abstraction: the byte order and CRC of Modbus frames and their 64-byte
  chunks beyond `Garbled`; the transmit ring buffer; NVS sectors and garbage
  collection; the floating-point formula of the table; names, dates and boot sector
  identification of the disk; the UICR and DCDC registers of the chip; logging.
- The inside of the ZBOSS stack, which is a binary.
- `func_reset_local`, which nobody calls.

## What is left

- `ComTask` composed with `ModbusUsb`, so that the time of a command is that of
  `mh_Factory` and its flash writes.
