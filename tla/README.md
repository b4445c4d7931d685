# A TLA+ model of cycle_buff and the HFC boot loader

The repository holds two programs: `src/cycle_buff`, a circular buffer with a
trial pointer, and `src/hfc-boot`, a U-Boot for an i.MX25 board with an
application of its own under `hfc_app/` (keypad, battery, display, timer).
Here are TLA+ modules of both, the TLC configurations that check them on small
instances, and TLAPS proofs of what matters most for every instance.

Most of `src/hfc-boot` is upstream U-Boot for hundreds of boards. The models
cover what was written for this board, and the upstream code, as changed for it,
whose behaviour over time is worth a model: the TFTP download with the loop and
the ARP exchange around it, the bad block table of the NAND flash, the first
stage that loads U-Boot from it, and `bootm`.

## The system and its parts

| part | state | operations | what makes it hard |
|------|-------|------------|--------------------|
| `cycle_buff/buff.c` | three free-running counters `in`, `out`, `trial`, the data | in, try, out, retry, clrtrial, byte variants | counters wrap at 2^32, lengths are masked differences, copies are split at the end of the array |
| `net/tftp.c` | block numbers, wrap offset, remote port, time-out count | start, send, handle OACK/DATA/ERROR, time-out | lost, late, repeated packets; a second server transfer; 16-bit block numbers |
| `net/net.c`, `net/arp.c` | `net_state`, one timer, retry count, the parked packet | enter, receive, time-out, restart, return | a timer due in the same pass as the packet; nested retries |
| `arch/arm/lib/interrupts.c` | handler table, AVIC enable bits, CPSR I bit | request, free, dispatch | an interrupt between any two steps; requests that fail half way |
| `hfc_app/hfc_irq` | GPT2 enable bit, `timer_base`, `time_tick` | init, finish, interrupt handler | shared with the main loop without a lock |
| `arch/arm/lib/board.c` | `battery_loop`, `sys_loop`, `system_init`, `key` | one pass of the loop | ticks lost between test and clear and during a 220 ms measurement |
| `hfc_app/hfc_key` | row maps, debounce and long-press counters | `mxc_kpp_getc` | keys change between polls; the release may fall where no poll sees it |
| `hfc_app/hfc_battery`, `hfc_misc` | voltage, level, animation counter | `hfc_battery_manager` | integer ranges with gaps, modulo of a reloaded byte |
| `hfc_app/hfc_spi`, `hfc_gpio`, `hfc_lcd` | one SPI device structure, the copy of the HC595 outputs | probe, set-up, write one output, route, measure | one device set up differently by two users |
| `common/cmd_bootm.c`, `arch/arm/lib/bootm.c` | the global `images`, the saved interrupt flag | `bootm`, its subcommands, reset | errors after the point of no return; subcommands in any order; interrupts still enabled |
| `drivers/mtd/nand/nand_bbt.c`, `nand_base.c` | two tables in flash, one in memory, versions and places of the two | scan, mark a block, test a block | power fails between erase and program; one copy of two is written; versions are bytes |
| `drivers/mtd/nand/nand_util.c` | the image of U-Boot in flash | erase, write | blocks are skipped by the table in memory |
| `nand_spl/nand_boot_fsl_nfc.c` | none | load the image, start it | blocks are skipped by markers in flash |

GPT2's interrupt handler raises `time_tick`; the main loop serves it, polls the
keypad, and every eleven ticks measures the battery through the SPI device, which
routes the ADC through the HC595 and the HC4051. A long press of MENU (recovery)
or ESC on the console leaves the loop for U-Boot's prompt. From the prompt, the
`tftp` command runs `NetLoop`, `nand` erases, writes and marks blocks of the flash,
`bootm` starts a kernel or an application, and `irqtest`, `lcd` and `misc` reach
the parts above directly. At power-on the first stage has loaded U-Boot from the
blocks that `nand write` put it in.

## Modules

| module | models | role |
|--------|--------|------|
| `CycleBuff` | `buff.c` | the detailed specification |
| `TrialFifo` | what the buffer promises | abstract: a bounded queue, a prefix of it tried |
| `CycleBuffFifo` | | the refinement mapping from the first to the second |
| `CycleBuffAcks` | a sender using the buffer | counts bytes sent and not acknowledged |
| `CycleBuffProofs` | | proofs about `CycleBuff` and the refinement |
| `TftpClient` | `tftp.c`, `NetLoop`, `arp.c` | the actions of the client |
| `TftpTransfer` | the client, a server and the network | composition; the server is external |
| `TftpProofs`, `TftpImageProofs` | | proofs about `TftpTransfer`: the protocol and its timers, the image |
| `HfcIrq` | `interrupts.c`, `hfc_irq.c` | main program, CPU and devices interleaved |
| `HfcBootm` | `cmd_bootm.c`, `arch/arm/lib/bootm.c` | composition: `HfcIrq` with `bootm` at the prompt |
| `HfcIrqProofs` | | proofs about `HfcIrq` and `HfcBootm` |
| `HfcKeypad` | `hfc_keyb.c` | the driver, the port's latch and the user |
| `HfcLoop` | the loop of `board_init_r` | composition of `HfcIrq` and `HfcKeypad` with the loop |
| `HfcLoopProofs` | | proofs about the two |
| `HfcBattery`, `MCHfcBattery` | `hfc_battery.c`, `calc_adc_voltage`, the icon | the data path of one measurement; its conversions |
| `HfcSpi` | `hfc_spi.c`, `hfc_gpio.c`, the users of both | the shared device and the route to the ADC |
| `HfcMeasureProofs` | | proofs about `HfcSpi` and `HfcBattery` |
| `NandBbt` | `nand_bbt.c`, `nand_base.c`, the descriptors of `mxc_nand.c` | the bad block table, power cuts, failing operations |
| `NandFlash` | `nand_util.c`, `nand_spl` | composition: `NandBbt` with the command that writes the image and the first stage that loads it |
| `NandBbtInv`, `NandBbtProofs` | | proofs about `NandFlash`: the invariant of the tables and the steps of `write_bbt`; the theorems and the image |

Definitions keep the names of the C functions and variables. Definitions marked
"mutant" are faulty variants of the one below them; no specification uses them.

### CycleBuff

One action per function. The LWORD counters and the WORD results keep their
modulus (`LWORDMOD`, `WORDMOD`); `x & (len-1)` is `x % len`, which needs the
length to divide the modulus, the assumption `WrapAssumption`. `call` records
what the caller passed and got back, so that the refinement relates results and
not only states. The block operations check the room themselves; `buff_inb` and
`buff_outb` check nothing, so `Next` calls them as a caller must: with room, and
with data. The byte `buff_outb` takes may be one that was not tried; `app.c` does
that. `trial` is then behind `out`, and `stray` is the history variable that says
so, until `buff_clrtrial`, `buff_init` or a `buff_out` with untried data left puts
it back. In `TrialFifo` the cursor is `Lost` meanwhile: nothing is promised of
`buff_try` and `buff_retry`, but the queue itself is not harmed.

### TftpClient and TftpTransfer

The variables are the file-scope variables of the three C files; `pc` is the
place in `NetLoop`: receive, then Ctrl-C, ARP time-out, timer and the switch on
`net_state`, in the code's order. Bytes of the file are named by their offset, so
`mem[o] = o` says that a byte is where it belongs. A received packet runs its
handler to the end (`TftpOack`, `TftpDataNotFirst`, `TftpDataDuplicate`,
`TftpDataStore`, `TftpError` are the paths through `TftpHandler`). Time is counted
in ticks of ARP's time-out; `Tick` only passes when no timer is due, because the
loop polls far more often than every five seconds.

Assumptions: the board has one ethernet device, so `eth_try_another` wraps at
once; each attempt gets a new `TftpOurPort` (the code takes it from the timer);
the server is lock-step and answers each request it receives with a transfer on a
port of its own. A packet stays in the network once sent, and may be received
late, repeatedly, in any order or never; `Lifetime` says when the network has
dropped it, `Duplicates` whether a data packet may arrive twice.

### HfcIrq

The main program is cut where an interrupt can be taken: `irq_request` is the
masking, `irq_chip_enable`, `set_irq_handler` and `restore`. `do_irq` is one step,
as the CPU masks interrupts while it runs. A line without a handler stays pending.
A request for a line that has an owner is refused by `set_irq_handler`, after
`irq_chip_enable` and inside the masking; `OwnerServed` says that the owner does not
lose its interrupts by it.

### HfcBootm

The prompt of `HfcIrq` with one more command. `bootm` is cut where its behaviour
towards interrupts changes: `bootm_start`, the masking, `bootm_load_os`, the
ramdisk and the choice on the type, `boot_prep_linux`, `boot_jump_linux`. What an
image is to them is a choice made in `bootm_start`: its type, whether its
operating system is Linux, whether its load fits, overlaps, breaks off or has a
compression that is not compiled in. A `bootm_start` that fails leaves `images`
empty, or with its `os` filled in when it is the ramdisk or the device tree that
could not be found. `images.state` keeps its bits, so that the
order test of `do_bootm_subcommand` is the code's comparison. `loaded` and
`prepared` are history: what was done to the image in `images`. A kernel is taken
not to return; a reset, or cycling the power of a board that hangs, starts over
with the AVIC as the hardware leaves it.

### HfcKeypad

A cell is its scancode plus one. POWER closes cells 1-4 and MENU cells 1-8 and
13-16, so POWER's cells are a part of MENU's, as in `HfcKeypad.cfg`. `k_KeyV` has
room for 16 cells (`hfc_keyb.c:77`) of the 20 of the matrix, and the loop that
fills it does not look; `PressAssumption` leaves out users who close more. The
latch `KPKD` belongs to the port: a scan clears it and a key held down sets it
again. `keyed` and `seen` are history.

### HfcLoop

`pc` walks one pass of the loop; the test and the clearing of `time_tick` are
separate steps. `credit` is history: ticks raised and not served.
`hfc_battery_manager` is here a call that takes time; nothing of what it computes
comes back to the loop.

### HfcBattery and HfcSpi

The two halves of a measurement. `HfcBattery` has the exact integer arithmetic:
mean without extremes, scaling, level table, animation. `HfcSpi` has the route:
the functions on the bus map a record to a record, and an action is a call made
by the loop or by a command. Outputs are numbered 0 to 31, as on the board; a
larger number given to `misc hc595` is not modelled. A word goes to the chip the
device is set up for, whoever sends it (`poll_spi_write`): `lcd reg` does not set
the device up, so after a measurement its command ends up in the shift register of
the HC595, behind the latch. `sent` is history: the last copy of the outputs that
reached the HC595.

### NandBbt and NandFlash

A table in flash is a record of its pattern (`td` or `md`), its version and the
set of bad blocks; the table in memory is the same set and the set of reserved
blocks. `op` is what runs, `writeops` the tables it still has to write, and
`write_bbt` is cut between erasing and programming, where power can fail.
Every erase and program may fail, up to `MaxFails` times, and what a failed one
leaves in flash is a choice. The programming of the page of a table is taken to be
atomic. `acked` and `forgotten` are history: the blocks whose marking was reported
as a success, and those among them for which power failed at a moment when neither
copy was in flash.
`Newer` is the signed comparison of version bytes with their modulus
`VERSIONS`. A device starts without tables or with two equal ones of any version.

`NandFlash` adds the image: the set of blocks it is in, which says where each part
of it is because both programs go upwards from the same block. `nand_load` skips
by the marker in the spare area and `nand write` by the table in memory. The
blocks of the tables count as marked for the first stage: it looks where a table
has its pattern. `skipped` is history.

## Runs

| run | configuration | shows | states |
|-----|---------------|-------|--------|
| `cycle_buff` | `CycleBuffFifo.cfg` | `TypeOK`, `LengthsAgree`, `CountersChase`; the buffer implements `TrialFifo` | 79,757 |
| `cycle_buff_acks` | `CycleBuffAcks.cfg` | violated: `TrylenIsUnacked` | |
| `tftp_transfer` | `TftpTransfer.cfg` | `TypeOK`, `StoredInPlace`, `ImageComplete`, `ServerNotAhead`, `OutcomeFinal`, `SilentLoopReturns` | 196,116 |
| `tftp_wrap` | `TftpWrap.cfg` | `StoredInPlace` and `ImageComplete` over two wraps of the block number | 476,567 |
| `tftp_wrap_duplicate` | `TftpWrapDuplicate.cfg` | violated: `StoredInPlace` | |
| `prompt` | `HfcBootm.cfg` | `BootTypeOK`, `EnabledHasHandler`, `ReturnsUnmasked`, `NoReturnMasked`, `KernelReady`, `OwnerServed` | 3,718,264 |
| `keypad` | `HfcKeypad.cfg` | `LongPressTakesTime`, `MenuWasSeen`, `HeldMenuRecovers` | 268,356 |
| `main_loop` | `HfcLoop.cfg` | `LoopTypeOK`, `ServedTicksHappened`, `MeasuredAfterInit`, `BatteryServed`, `HeldMenuLeavesLoop` | 419,016 |
| `battery` | `HfcBattery.cfg` | `BatteryTypeOK`, `VoltageWithinSamples`, `BarsMatchVoltage`, `AnimationSteps` | 75,001 |
| `spi` | `HfcSpi.cfg` | `OutputsKnown`, `SampledAsAsked`, `PanelHears` | 74,638 |
| `flash` | `NandFlash.cfg` | `FlashTypeOK`, `MarksSurvive`, `RamKnowsFlash`, `PowerCutsSpareATable`, `Mirrored`, `ImageBoots`, `TablesProtected` | 2,111,758 |
| `flash_spl` | `NandSpl.cfg` | violated: `BadBlocksSkipped` | |

### Bounds

* `cycle_buff`: four slots, counters modulo 8 and lengths modulo 8, from every
  start value; a call passes at most two bytes. Every counter wraps, in every
  order, and a copy is split at every place. The proofs cover the other sizes.
* `tftp_transfer`: a file of three bytes is two blocks of the granted size 2 or
  four of the default size 1; two attempts and two server transfers, so that old
  transfers overlap the current one; one time-out before a transfer restarts;
  `netretry` = 2. Every packet may be duplicated. The sequence space of 8 is
  larger than the file, so this run has no wrap.
* `tftp_wrap`: sequence numbers modulo 3 and up to nine blocks wrap twice or more.
  No data packet arrives twice here (see the finding below) and a packet is gone
  when the server is two blocks ahead, as 65534 blocks are on the real network.
  `netretry` is unset and `ethrotate` is "no", the other side of `NetStartAgain`.
* `prompt`: the system timer's line, GPT2's and a third one, a GPIO number and
  one out of range; two drivers compete for a line. Every kind of image, every
  order of the subcommands (`images.state` has all its eight bits), any number of
  resets; two timer interrupts to a tick.
* `keypad`: three cells, POWER one of them, MENU two, and a third key. The
  long-press limit of 10 is several scans of three cells, as 300 is of 20.
* `main_loop`: two timer interrupts to a tick, a measurement every second tick,
  the backlight every second, three cells: MENU two of them, POWER the third. POWER
  held, then MENU and POWER in turns, can leave a stale cell behind that keeps MENU
  from registering until all keys are released; the run has such behaviours, and
  `HeldMenuLeavesLoop` is about what is promised after the release.
* `battery`: the real constants; conversions in each range, on each border and in
  each gap of the level table, with noise, and cut short.
* `spi`: the four outputs the multiplexer and the RTC switch use, with arbitrary
  levels at power-up in the latch and in the shift register; two panel commands,
  one of which has the bit of a select line.
* `flash`: eight blocks, three of them for the tables, an image of two blocks, one
  block between it and the region and one behind the region. Factory-bad blocks are
  nowhere, or in the way of the image and in the region, or two in the region, which
  leaves room for one table only. Four blocks may be marked, version bytes
  wrap at 8 and start anywhere, two operations of the chip fail and power fails any
  number of times. `VersionAssumption` relates the two: the copies may be as many
  updates apart as operations fail, plus one, and half of the range of versions
  must be more than that (128 on the board). A region without a good block is a case
  of the proofs.
* `flash_spl`: the same without factory-bad blocks and without failures.

`CHECK_DEADLOCK FALSE` is given for TFTP only, where the number of attempts is
bounded and the prompt has nothing left to do.

### Fairness

* TFTP (`SilentLoopReturns`): the loop takes its steps and time passes. Strong
  fairness of `Tick` says that the clock advances between passes of a loop that
  keeps running. Nothing is assumed of the network, the server or the user.
* Keypad (`HeldMenuRecovers`): the driver is polled and the port latches a key
  that stays down.
* Main loop (`BatteryServed`, `HeldMenuLeavesLoop`): the CPU executes the main
  program and takes pending interrupts, and GPT2 counts while it is enabled. That
  interrupts leave the main program time to run is an assumption about speed: the
  timer interrupts every millisecond. Nothing is assumed of the user.

`HeldMenuRecovers` and `HeldMenuLeavesLoop` have the user's part as their hypothesis:
a poll has seen all keys released, only MENU's contacts close from then on, and in
the end they stay closed.

### What the violated runs show

* `cycle_buff_acks`: `buff_out` moves `trial` to `out` whenever untried data is
  left, so after a partial acknowledgement `buff_trylen` forgets the bytes sent
  and unacknowledged which its comment (`buff.c:24`) says it counts. They are sent
  again.
* `tftp_wrap_duplicate`: `update_block_number` adds to the wrap offset before the
  test for "Same block again; ignore it." (`tftp.c:590`). A duplicate of the
  block numbered 0 shifts the rest of the file by a whole sequence.
* `flash_spl`: `nand markbad` only updates the bad block table, and the first stage
  looks only at the markers in the spare area. After an image was written past a
  block marked bad since the factory, the first stage loads that block as a part of
  it, although "See if this block is good. If not, loop until we find a good
  block." (`nand_boot_fsl_nfc.c:237`). `ImageBoots` states what is left: with this
  case, and a first block bad from the factory, excepted the image is found.

## Proofs

`CycleBuffProofs`, for every length, every modulus it divides and any set of
bytes:

* `CountersStayInOrder` (`Spec => []CountersChase`): `in` is ahead of `out` by less
  than the length, and `trial` between them unless it strays. The inductive invariant is
  `IInv == CounterTypes /\ CountersChase`: `CountersChase` alone says nothing of
  the range of `out`, without which the sums modulo `LWORDMOD` cannot be
  compared. Each operation moves one counter by at most the distance to the next,
  and lemmas about `Plus`, `Minus` and masking turn the distances into the
  lengths the functions compute.
* `LengthsAlwaysAgree` (`Spec => []LengthsAgree`): follows from `IInv`, because
  masking a difference of two counters gives the distance.
* `TypeCorrect` (`Spec => []TypeOK`).
* `BufferIsAFifo` (`Spec => ImplementsFifo`): the buffer implements `TrialFifo`, also
  for callers that take untried bytes. The
  mapping reads the queue off the array from `out` on (`Held`), so a step is
  compared slot by slot: what `buff_in` copies in one or two parts is appended
  (`Appended`), what `buff_out` skips is removed from the front (`Removed`), and the
  slots in between are untouched, because by `IInv` a free slot is never one of the
  data. There is a lemma per operation, the calls that refuse included.

`TftpProofs` and `TftpImageProofs`, for every file, both block sizes, every limit of
time-outs and retries and any number of attempts and of server transfers:

* `TypeCorrect` (`Spec => []TypeOK`). It rests on the inductive invariant `Protocol`,
  which is also what the others rest on: `Timers` (which handler is armed where in
  `NetLoop`), `Unheard` (before the server's address is known nothing was sent from
  this attempt's port), `ServersOK` and `PacketsOK` (every packet in the network is
  one its sender could have sent) and `Session` (the client has taken at most one
  transfer, acknowledges no other, and no other one got past its first block).
* `OutcomeStays` (`Spec => OutcomeFinal`), under `ArpOutlasts`: `ethrotate` is not
  "no" and the ARP requests last longer than TFTP's time-out and the pause before a
  restart together. On the board they do: five requests, one tick, two ticks. The
  invariant `Patient` says that ARP then never is the one to give up. Both
  conditions are needed, see the observations.
* `BytesInPlace` (`StoredInPlace`), `SuccessMeansComplete` (`ImageComplete`) and
  `NeverAhead` (`ServerNotAhead`), under `NoWrap`: the blocks of the file have
  numbers of their own. Without it the first is false (`tftp_wrap_duplicate`). The
  invariant `Image` adds to `Protocol` that all blocks up to the last one counted,
  acknowledged or sent past by the server are in memory (`Covered`).

`HfcIrqProofs`, for all sets of lines, GPIO numbers and handlers and every `TICK`,
first for the interrupt table alone (`Spec`):

* `TableTypeCorrect` (`TypeOK`), `EveryInterruptHandled` (`EnabledHasHandler`),
  `InterruptsComeBack` (`RunsUnmasked`), `OwnersKeepTheirLines` (`OwnerServed`).
* The inductive invariant `IrqInv` is the types, `MaskedInside` (inside a table
  operation interrupts are masked), `CallOK` (the saved flag says they were on),
  `OnlyOneBare` (the only enabled line without a handler is the one being
  registered), `OnlyOneIdle` (the only handler on a line that is off is the one being
  removed) and `RunsUnmasked`. `EnabledHasHandler` alone is not inductive: it
  says nothing of the steps inside `irq_request`, during which a line is enabled
  and bare.

and then with `bootm` (`BootSpec`):

* `PromptTypeCorrect` (`BootTypeOK`), `PromptInterruptsHandled`
  (`EnabledHasHandler`), `PromptComesBackUnmasked` (`ReturnsUnmasked`),
  `PointOfNoReturnMasked` (`NoReturnMasked`), `KernelsAreReady` (`KernelReady`),
  `PromptServesOwners` (`OwnerServed`).
* `BootInv` is `IrqInv`, the types of `images`, `BootMasks` (where `bootm` is
  masked, and that `iflag` remembers interrupts were on: the error path cannot
  restore what was not saved) and `BootStages` (what was done to the image by the
  time `bootm` is there).

`HfcLoopProofs`, first for the keypad alone (`KeypadSpec`), for every finite matrix
smaller than the key codes, every POWER, MENU and limit: `LongPressesTakeTime`
(`LongPressTakesTime`) and `RecoveryNeedsMenu` (`MenuWasSeen`). The invariant
`KeypadInv` adds `InTime` (the long-press count grows by at most the number of cells
in a poll) and `Remembered` (the cells collected, and those behind a special key,
were seen since the last release). Then for the loop (`LoopSpec`), for every period
and limit:

* `NoTickServedTwice` (`ServedTicksHappened`) and `MeasuresAfterInit`
  (`MeasuredAfterInit`). The second needs to know whose request of a line is on its
  way and that the entry of the SPI line is free until the first pass of the loop
  asks for it (`BeforeInit`, `AfterInit`).
* `LoopTypeCorrect` (`LoopTypeOK`).
* `LoopRecoveryNeedsMenu`: both properties of the keypad hold inside the loop. Its
  steps are steps of the keypad, leave it alone, or are the console writing `key`.

`HfcMeasureProofs`, about the two halves of a measurement:

* The route, for every set of outputs and of panel commands given at the prompt:
  `OutputsAccountedFor` (`OutputsKnown`), `ConversionsAreRouted` (`SampledAsAsked`),
  `PanelUndisturbed` (`PanelHears`). The invariant adds `Steady`, which every function
  on the bus keeps (a device set up for the HC595 has 32-bit words, so that one
  transfer replaces the whole shift register, and a word of the HC595 stays there
  until another comes), and `Owned` (nothing used the device before the first pass of
  the loop, and the interrupt line is taken for good after it).
* `VoltageIsMeasured` (`VoltageWithinSamples`), for every buffer of up to sixteen
  12-bit samples. `calc_adc_voltage`'s loop is a recursive function (`Running`). That
  it is defined for the whole buffer, and that after n passes the sum without the
  extremes lies between n - 2 of the smallest and n - 2 of the largest sample
  (`Bounded`), is shown by taking the least n for which it would not.
* `BatteryTypeCorrect` (`BatteryTypeOK`) and `BarsTellVoltage` (`BarsMatchVoltage`),
  for every start of the animation counter, and `AnimationNeverJumps`
  (`AnimationSteps`), under `WholeRounds`: the counter starts at a multiple of 2, 3
  and 4, as 120 is. The invariant `Animated` ties the bars on the screen to the
  counter.

`NandBbtInv` and `NandBbtProofs`, about `FlashSpec`, for every size of
the device and of the region, every set of factory-bad blocks and any number of
failures that `VersionAssumption` allows: `MarksSurviveHolds`,
`RamKnowsFlashHolds`, `PowerCutsSpareATableHolds`, `MirroredHolds`,
`TablesProtectedHolds`, each for the property of its name. A step of `NandFlash` is a
step of `NandBbt` or leaves its variables alone, and the steps of `NandBbt` preserve
`IInv`:

* `Flow`: what is left to write in each place, and that the region is reserved as
  soon as a command can run;
* `Placed`: td is in the first good block of the region and md in the second, also
  after any number of lost tables. That a table finds its old block again is why
  there is never a third, stale one;
* `Written`: a table that is not (or no longer) to be written is the one in memory;
* `Kept`: the blocks marked with success, and not forgotten, are in every table in
  flash, not only in the newest, because a success means that both were written;
  a power-on that finds no table finds them all forgotten;
* `Spare`: while td is to be rewritten, md is there;
* `Versioned`: a copy is behind by at most the number of failures and the update
  under way, md is never ahead of td, and the older of two copies is contained in
  the newer. That is why the signed comparison of bytes decides rightly.

None of the five properties is inductive without them: what a power-on finds
depends on where earlier writes put the tables and how far they got.

Two more are about the image: `FlashTypeCorrect` (`FlashTypeOK`) and
`ImageAlwaysBoots` (`ImageBoots`), the latter under `Roomy`: on every chip that may
be delivered there are at least as many good blocks below the region as the image
has, and more than that outside it. On the board the image has four blocks and block 1 on
are its first, the tables are in 10 to 15, so up to five of the nine blocks in front
of them may be bad. The invariant `ImageInv` adds to `IInv` that the markers of the
factory are known to every table (`FactoryKnown`) and that, after an image was
written without a block marked later in its way, it lies in the first blocks without
a marker (`ImageFits`, `WriteRuns`). That two programs which count good blocks
upwards choose the same ones is a lemma about least elements (`FirstOfFills`,
`FirstOfBelow`).

The types of `HfcSpi` and of the keypad alone (`SpiTypeOK`, `ScanTypeOK`) are parts of
the invariants proved in `AlwaysSpiInv` and `AlwaysKeypadInv`.

The assumptions are the named `ASSUME`s of the component modules, which TLC evaluates
in the runs, and the hypotheses named above: `NoWrap`, `ArpOutlasts`, `WholeRounds` and
`Roomy`. Every safety property that a passing run checks has a theorem. What remains
with TLC alone:

* liveness (`SilentLoopReturns`, `HeldMenuRecovers`, `BatteryServed`,
  `HeldMenuLeavesLoop`): the proof system does not cover fairness;
* `StoredInPlace` and `ImageComplete` over a wrap of the block number (`tftp_wrap`):
  without duplicates and with a network that has dropped a packet before its number
  comes again, which the invariant `Image` does not count.

## Observations outside the runs

* `app.c` removes a byte with `buff_outb` that was never tried. `out` then passes
  `trial`, and `buff_trylen` reports nearly a full buffer until `trial` is put back.
* `timer_base` is compared with `> 10` after the increment, so a tick takes eleven
  interrupts where `board.c:760` says "//10ms" and `hfc_irq.c:82` "(1ms)".
  `board.c:768` says "//1s" of 26 ticks.
* The return of a long-press code leaves the cells found by the scan in
  `press_scancode`; the next poll collects them, "Still Down" (`hfc_keyb.c:358`) or
  not. So the cells of MENU need not be down together for MENU to be registered;
  `MenuWasSeen` states what is left. And a stale cell that is collected together with
  MENU keeps it from being registered: MENU held from there on never leaves the loop.
* MENU that is reached by releasing other keys of a larger press is not a new
  press and never registers. A key released before the latch is set again is not
  seen released.
* A voltage of 7.70 V falls between two ranges and shows as a low battery.
* `lcd battery` asks for icon 5, which `lcd_base.c:305` calls full and which clears
  all bars.
* A second `lcd init` fails on the interrupt line it already owns, after the
  device was cleared and before it has its master; all later transfers are dropped
  and the panel, which was reset, stays without its settings. `gpio_set_hc595_output`
  goes on changing its copy and pulsing the latch. The outputs stay as they are
  unless the shift register holds a word that was not latched: one of `lcd reg`, or
  the one of power-up. `OutputsKnown` and `PanelHears` say so, and `SampledAsAsked`
  what is left of a measurement.
* `lcd reg` after a measurement talks to the chip the measurement set up.
* An OACK is accepted in any state of a transfer. A late copy of it makes the next
  block "first", the check called an assertion (`tftp.c:578`) fails and the
  transfer starts again. The image is not damaged (`ImageComplete`).
* With a `tftptimeout` of two ticks (ten seconds) or more, or with `ethrotate` "no",
  ARP may give up in a pass in which the restart is due as well. The timer then
  turns the failure into another attempt, which is why `OutcomeStays` has its two
  hypotheses.
* `gpt2_finished` clears bit 0 of the prescaler register under the comment
  "disable GPT" (`hfc_irq.c:100`). The timer runs on, with its line off.
* `do_bootm_linux` ignores the stage it is called for, so `bootm cmdline`, `bdt` and
  `prep` jump into the kernel, prepared or not and loaded or not; an image of an
  operating system without an entry, and `bootm go` with no image, call address 0.
  The comment above `boot_os_fn` (`cmd_bootm.c:99`) says that the caller has loaded
  the image and disabled interrupts. `KernelReady` is about `bootm` itself.
* `do_bootm` does not look at the operating system nor at the result of
  `hfc_load_ram_disk`. A kernel without a device tree hangs the board.
* A `nand markbad` that failed, tried again, finds the block bad in memory and
  reports success, with nothing written (`nand_base.c:2438`). Marking a block of the
  region reports success and does nothing.
* An error on td leaves md unwritten. A failure of md followed by a power cut in
  the middle of the next update can cost both tables, and with them every mark;
  `PowerCutsSpareATable` is about power cuts alone, and `MarksSurvive` says that
  marks are lost in no other way.
* `nand erase` prints the blocks that failed and returns 0.
* `nand_load` reads its first block unchecked, and looks for a good block after
  the last one it needs.

## Not modelled

The share of the repository that is modelled is small and cannot be large: of
about 1.67 million lines under `src/`, nearly all are U-Boot as distributed, with
its support for hundreds of processors and boards, of which this board builds a
small part. The models are of the code written for the board and of the parts
around it that keep state between commands, interrupts or power cycles.

* Other boards and drivers, file systems, UBI, console, the command line,
  decompression, host tools. Distributed with U-Boot, and mostly not built.
* `net/`: protocols other than TFTP, frame parsing, TFTP upload and server,
  multicast (configured out).
* Registers of the ADC, of one SPI transfer, of the NAND controller and of the
  keypad port beyond the latch; the interrupt-driven SPI transfer, `mxc_getkey` and
  `keypad_clear`, which nothing calls. That a conversion ends is assumed.
* Text, fonts and pictures on the display; `lcd vol`.
* NAND: error correction, `scrub` (which forgets the tables on purpose), JFFS2
  markers, raw and oob writes, a table page that is half programmed when power
  fails.
* `bootm`: NetBSD and RTEMS images, the contents of the device tree and of the
  memory map. The data checksum plays no part: `boot_get_kernel` passes 0 for
  `images->verify` (`cmd_bootm.c:947`), so only the header's is checked.
* `HfcBattery` and `HfcSpi` are not composed: the conversion is all that the battery
  code takes from the route, and `HfcBattery` takes conversions from every range.
* The environment is compiled in as "nowhere"; it has no state to lose.
