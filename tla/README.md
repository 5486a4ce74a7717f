# pico-uMIPS in TLA+

pico-uMIPS emulates a DECstation (a MIPS R3000 with its clock, serial
controller and disk) on the two cores of an RP2040 and boots Linux on it. This
directory holds TLA+ models of its components, the TLC configurations that
check them, and theorems about them with proofs that TLAPS checks. Paths below
are relative to `src/uMIPS/` unless they begin with `src/`.

To check a run: `tlc -workers 2 -config Mmu.cfg MCMmu`. To check the proofs of a
module: `tlapm Mmu_proofs.tla`. `PROJECT.json` lists runs, theorems, hazards,
the lines each definition models, and for each property a plausible bug
(a *mutant*) with which the same run fails.

## 1. The system

### Threads of control

    core 0   main, then the loop of console.c: sends what waits in the queue,
             hands typed characters to dz11charRx.
    timer    a repeating alarm on core 0: ds1287step, TicksPerSecond times a
             second; it interrupts the loop of core 0.
    core 1   core1_entry: start-up, then the emulator, one cpuCycle after
             another: translation, caches, devices, hypercalls.

Nothing is locked. The threads share `cpu.cause` (both devices raise their
interrupt with `cpuIrq`), `gDZ11`, `gRTC` and the console queue, which is a
`queue_t` of the SDK with its own lock.

### Components

| component | state | operations | hard about it | what makes it correct | modelled |
|---|---|---|---|---|---|
| L2 cache and PSRAM driver, `psram/cache_l2.c`, `psram/psram.c` | tags, LRU and DIRTY bits, lines; the chips | `cache_read_l2`, `cache_write_l2`, `accessPSRAM` | long sequences of evictions; more lines than the chips hold; copy loops at their bounds | it is a RAM: a read returns the last write | `CacheL2`, `Ram` |
| CPU: TLB, `emulator/cpu/cpu.c` | entries, EntryHi, EntryLo, Index; hash lists | TLBR, TLBWI, TLBWR, TLBP, MTC0, translation | entries moved between linked lists; two entries that match | lists stay linked and complete; it answers like a table | `Tlb`, `TlbHash` |
| instruction cache, `psram/icache.c` | lines by virtual address | fetch, flushes | stale lines after a TLB write or change of address space | a cached instruction is one of the current mapping | `Mmu` |
| DZ11 serial controller, `emulator/dz11/dz11.c` | per line a ring, flags, counts; CSR, TCR | six register accesses, `dz11charRx` | a ring wrapped and full; cached status; characters from core 0 | order kept, losses reported, interrupt follows the lines | `DZ11`, `Silo` |
| DS1287 clock, `emulator/rtc/ds1287.c` | time, alarm, control bits, flags | register accesses, `ds1287step` | carries, leap years, the century's end, formats, a clock never set | next second follows; what is written reads back | `DS1287` |
| interrupt lines and devices shared by the threads, `cpu.c`, `dz11.c`, `ds1287.c`, `main.c` | `cpu.cause`, shared fields | `cpuIrq`, MTC0, exceptions, the devices' handlers | loads and stores of three threads interleave | counts stay in bounds; ticks get through | `IrqRace` |
| CPU: exceptions and COP0, `cpu.c` | Status, Cause, EPC, BadVAddr, Context | `cpuPrvTakeException`, RFE, MTC0 | nesting; delay slots | handlers return where and in the mode they should; programs do not notice | `Exceptions`, Cause also in `IrqRace`; not BadVAddr, Context |
| CPU: decode and execute, `cpu.c` | registers, HI and LO, PC, delay slot, LL bit | `cpuCycle` | faults in delay slots; LL/SC; unaligned halves; signed overflow | a branch and its slot stay together; SC succeeds only undisturbed; an access is done as a whole or not at all | `Exceptions`, `UserCode`: flow; `Execute`, `Isa`: registers and memory |
| physical memory map, `emulator/memory/mem.c` | table of regions | add, access | regions that overlap; a refused region | an address has one region | `MemMap`, in `Boot` |
| DEC bus registers, `emulator/bus/decBus.c` | CSR, error address | register accesses | loads and stores report a failure, fetches do not | the register has the last load or store that failed | `DecBus`, in `Boot` |
| SoC, ROM, hypercalls, `emulator/soc/soc_rp2040.c`, `emulator/hypercall/hypercall.h` | one disk buffer | `startEmu`, disk transfers, termination | each step of the start may fail; the one buffer serves all | the machine's transfers move its data | `Boot`, `Storage`; not the calls for the memory map and one character |
| SD glue, `sd/sd.c`, `config/sd_hw_config.c`, the library's `glue.c` | the card | start, read, write, size | results dropped; two clients | errors reach those who ask | `Storage` |
| SD card driver, `sd_card_spi.c` of the library | initialized, kind, size | initialization, size, reads and writes of blocks | lost commands, damaged blocks, time-outs, retries | a read that succeeds is right; every call ends, but for one assertion | `SdSpi`, `BlockDevice`, in `Storage` |
| console, `console/console.c` | queue of 31 characters, `shldpanic` | put, panic, the loop of core 0 | test and halt race with a panic; a full queue | core 1 never waits; output gets out | `Console`, in `Boot` |
| start-up and self test, `main.c`, `psram/psram.c` | boot progress | `main`, `core1_entry`, `initPSRAM`, `tickRTC` | a panic that returns; a timer that runs before the clock is set | a machine that runs without an alarm is set up | `Boot` |
| FPU, `emulator/fpu/fpu.c` | registers, FCR31 | `fpuOp`; COP1, LWC1, SWC1, LDC1, SDC1 | sticky flags; traps it cannot take; shared by processes | each process has a unit of its own | `Fpu`, `OwnFpu`, `FpuShare`: control; not what arithmetic computes |
| L1 cache, `psram/cache.c` | | | | | not: every call is commented out |
| FatFs and the rest of the SD library, `src/no-OS-FatFS-SD-SPI-RPi-Pico` | | | | | not: vendored, and not called |
| USB descriptors | | | | | not: tables, unused |

Interactions: core 1 translates an address (`TlbHash`), fetches through the
instruction cache (`Mmu`) and executes (`Execute`, `FpuShare`), or goes through
the memory map (`Boot`) to RAM (`CacheL2`) or to a device (`DZ11`, `DS1287`);
devices answer with interrupts in `cpu.cause` (`IrqRace`), which core 1 polls
before each instruction (`Exceptions`). A hypercall goes to the card
(`Storage`), and all that is printed to the queue of core 0 (`Console`).

The `hazards` of `PROJECT.json` list, line by line, what here is hard to test,
and which property is aimed at it. Those with no property yet say why.

## 2. The modules

### Ram, CacheL2, CacheL2_proofs, MCCacheL2 — the memory path

`Ram` is the promise: lines of byte lanes that may be read and written in
pieces; `last` shows the bytes a call moved, so a refinement has to return the
right data and not just keep it. Lines may have their place in common
(`Place`): a line keeps what it holds as long as no other line of its place has
been written (`Alone`), which with a place for each line is RAM as usual.

`CacheL2` has the code's state: `tags` (line, VALID, DIRTY of each slot), `lru`
(the LRU bit that the code keeps in `tags[i][1]`), `data` (the lines), `psram`
(what two chips hold). An action is a whole call with its hit or its miss, the
write-back of the victim, the fill by `accessPSRAM` and the copy. Only core 1
calls it, so a call is one step. What `accessPSRAM` does to data is kept, as it
decides what the cache can promise:

- each 16 bit cell carries two bytes and the odd one is shifted away
  (`(tmpb[i] << 8) & 0xff`), so odd lanes read back as zero;
- its loops run to `i <= size/2`, so a fill also writes the first two bytes of
  the slot after (`Follows`, the array `cachelines[][2]` being contiguous), the
  first with what is behind the buffer on the stack. The loop of a write-back
  stores a cell there too, with the beginning of the slot after, so that is what
  the fill which follows may find there, or anything else (`Behind`, `Junk`);
- the address is sent to chips that decode `ChipLines` of it, so that lines may
  share a row (`Rows`). The configuration has two lines for each row, 16 MB of RAM
  (`umips_config.h:9`) over chips of 8 MB.

The cache is therefore a RAM on the even lanes from 2 on (`Safe`), in which
lines of one row have one place. `ImplementsSafeRam` states that by the mapping
*current content of a line = its slot, else its row in the chips*.
`ImplementsWholeRam` gives each line a place of its own, `ImplementsRam` that and
all lanes; both are violated. `written` is history: the lines written so far.

### Tlb, TlbHash, Mmu, Mmu_proofs, MCMmu — address translation

`Tlb` is the promise: a table of entries, a search that answers with *some*
entry that matches, the TLB instructions, MTC0, and the translation of an
access with the exceptions that the comment of `cpu.c:172-209` lists, each with
its code and vector (`Listed`). A failed translation leaves the page in EntryHi.
The code departs from the list in two ways, both when the user tries an address of
the kernel: a store gets the code of a load, as `cpuPrvMemTranslate` calls
`cpuPrvTakeAddressError(va, false)` whatever its parameter `write` says
(`cpu.c:664, 674`); and a fetch that hits in the instruction cache is not
stopped. `Translations` has exactly these two instead of what is listed, and
`shown` has what was tried (`tried`), so that a change of either is seen.

`TlbHash` adds `prevIdx`, `nextIdx` and `tlbHash` (variable `hash`) and
replaces the search by the walk of a list: `HashRemove`, `HashAdd` and
`Rehash` are `cpuPrvTlbHashRemove`, `cpuPrvTlbHashAdd` and their order in
`cpuPrvTlbWrite`. `cpuPrvMemTranslate` has the tests in the order of the
code. The walk is a recursive function with `NumEntries` steps;
that it ends, and what it meets on the way, are theorems. TLBWR may name any slot that is
not wired; the generator behind it is not modelled.

`Mmu` adds the instruction cache, one set of it: the set is chosen by bits
within the page, so a page stands for its line in the set and other sets
behave alike. A fetch that hits asks neither TLB nor mode, as in the code.

### Silo, DZ11, DZ11_proofs, MCDZ11 — the serial controller

`Silo` is the promise: a queue per line, the highest line first, a loss only
when full and then reported with the next character read of that line.

`DZ11` keeps the struct as a record (ring, `rxReadPtr`, `rxBytesUsed`, the 8
bit count of characters since the last read, control and cached status bits),
handlers as functions on the record, and one action per register access and for
`dz11charRx`. The trailing `dz11PrvRecalc` is part of each action that the code
ends with it, and absent where the code returns before it.

### IrqRace — three threads, no lock

A C statement that changes shared memory is two steps, a load and a store; the
timer interrupts the loop of core 0, and core 1 runs at any time. Modelled are
`cpu.cause` (one word), the bit fields of `gDZ11` (one byte), `rxBytesUsed` of
the console line and register C of the clock. `Does` selects what goes on in an
instance. Left to the models of the devices: the ring's contents, the other
lines, SAE and TIE, alarm and update interrupts. The loopback (MAINT) is left
out: with it both cores add to the count, and the bound proved here does not
hold; it is among the hazards. The proof of that bound is in `DZ11_proofs`,
which extends both modules (so the specification here is `RaceSpec`).

### UserCode, Exceptions, Exceptions_proofs, MCExceptions — the cycle of the CPU

`UserCode` is the promise to a program of user mode: instruction after
instruction, a branch with its slot as one step. `Exceptions` is `cpuCycle`
as to its flow: `pc`, `npc` and `inDelaySlot`; EPC and BD; the three pairs of
KU and IE in Status; `llbit`; an interrupt that is pending and not masked. A
step is one call of `cpuCycle`, an interrupt, an exception or an instruction
with its trailing `cpuPrvNoBranchTaken`, `cpuPrvBranchTo` or
`cpuPrvSkipNextInstr`. Any instruction may fault at either vector; which do is
for `Tlb`. Registers and arithmetic are left out: a branch goes either way, a
conditional trap traps or not.

The kernel is not in this repository. What the model assumes of its handlers is
what the R3000 asks of them: EPC is saved before another exception is risked;
of two handlers, one above the other, at most one relies on its pair still being
in Status, and interrupts are on only when it does not; a saved Status is put
back; the return is a jump with RFE in its slot. Between these a handler steps,
branches, uses LL and SC and faults as it likes. `frames` is what handlers have
saved; `nest` and `intact` are history, for the properties.

### DS1287, Boot_proofs, MCDS1287 — the clock

Registers as bytes, control registers as sets of bits, one action per register
access and `ds1287step` as a whole. The specification is `ClockSpec`, as its
theorems are in `Boot_proofs`, which extends `Boot` too. The lengths of minute, hour, day and century are constants.
The calendar that the properties use (`LeapYear`, `MonthLength`, `Moment`,
`Follows`) is stated on its own, with years counted from 1900 as
`ds1287.c:252` does. The code's is another: it takes a year for a leap year when it
is a multiple of three (`curYear % 3`, 255), and sets the year register to 0 when
it would reach 99 (`YearsPerCycle`), so that no year 99 follows year 98, and a clock set
to 99 goes on to 100.
`LeapMissed` and `CenturyMissed` name the moments at which the two disagree;
`MisjudgedYear` says which years they are. `NextSecond` states that the clock is
right at all other moments and wrong at each of these, so that it knows the rule
of the code from any other. The table of days is read before its start while `month` is 0;
that read is undefined and returns any value of `Beyond`. UIP is set and taken
away within one call and not modelled; the 114 bytes of RAM are not either.

### BlockDevice, SdSpi, Storage, Storage_proofs — the disk

`BlockDevice` is the promise of the driver: blocks move in order between buffer
and their own sectors; a transfer that is left in peace moves them all and
succeeds; one that is disturbed may stop early or spoil the block it is at and
no other; a *read* that reports success is right, disturbed or not. Of a
disturbed write the report says nothing, as `in_sd_write_blocks` overwrites the
status of the data response with that of CMD13 (`sd_card_spi.c:919-923`).

`SdSpi` is `sd_card_spi.c`, with a card. A step is one command with its three
tries (`sd_cmd`) or one block; `pc` names the place between two of them. The
card is external: it has a kind, a mode, an open transfer and its sectors, and
does what the driver takes for granted, except for its `flaws`: it may not send
back the pattern of CMD8, may not take 3.3 V, or may have a CSD whose structure
is neither 0 nor 1. The driver refuses the first two; at the third it stops in
`myASSERT`, whose function loops with interrupts off (place `"asserted"`,
`Asserts`). `faults` counts what goes wrong: a lost
or damaged command, a damaged block, a card slow beyond a time-out. A response
of few bytes arrives intact: the code does not check those. `hurt` says that
something has gone wrong in the call that is served, so that the promise of
`BlockDevice` to a transfer left in peace is no more than that: what has gone
wrong and was made good by another try of `sd_cmd` does not excuse a transfer.

`Storage` adds the callers: `sdCardInit` at the start, the hypercalls of the
machine over `massStorageAccess` (which returns true whatever happened) and
`mDiskBuf`, and the library's own glue, `disk_read` and the rest. In this build
nobody calls the latter: they are there because the driver serves them, are
what transfers of several blocks need, and show what an early error or a card that
is half initialized does to the next caller.

### MemMap, DecBus, Console, Boot, Boot_proofs — the start

Three small modules have the table of regions, the registers of the bus and the
console, with the operations as operators; `Boot` has the actions and composes
them with the stages of `core1_entry` and `startEmu`. Core 1 prints character
by character into the queue between two stages; core 0 goes around its loop,
where the test of the queue and that of `shldpanic` are two steps; the timer
calls `tickRTC` at any time. Every check on the way may fail, raises a panic and
is passed over, as in the code. What `initPSRAM` returns is open (`chips`),
though by `CacheL2` the driver of this commit makes it fail always: the start is
judged by what it does with each of the results. A load or a store of the
machine that fails is reported to the bus (`cpuPrvDataAccess`); a fetch that
fails is not (`cpuInstrFetchCached`, `icache.c:77-78`). Where a region's address ends is computed modulo
`Word`, as in the code.

### Isa, Execute, Execute_proofs, MCExecute — what instructions do

`Isa` is the manual, byte by byte: an access moves all its bytes or, if it
faults, none; LWL, LWR, SWL and SWR move those of their half; SC
stores or does not. `Execute` is the code: words, masks, shifts, the read and the
write of an SWL translated apart, the word an isolated cache gives back.
Between instructions the kernel, which is external, may change the mapping and
has an RFE to end with, so that LL is undone. Programs have no branches:
`Exceptions` has those. A quotient that is no `int` is undefined in C and gives
any HI and LO. An instruction is a record of the fields its format has, which
`Instruction` restricts: LUI has an immediate operand, multiplication, division
and the moves from HI and LO have none; an exact result is promised of nothing
else. Shifts by n bits multiply and divide by `pow2[n]`, a recursive function, so
that the width of a byte may be any; `Isa` knows only the number of values of a
byte and has neither shifts nor masks.

### Fpu, OwnFpu, FpuShare, FpuShare_proofs, MCFpuShare — the FPU

`Fpu` has `fpuOp` as an operator: what it returns, what moves to the general
register and the unit after it. A word is zero, a number or not a number, as a
float and, with its neighbour, as a double; what arithmetic and conversions
give is any number. The file is compiled with `-Ofast`, so what a comparison
with a NaN finds is open. `FpuShare` has the five kinds of instructions of
`cpu.c` that reach it, each after its test of CU1, and processes that take
turns. The kernel is external: it saves and loads registers at the first use,
with CFC1 and CTC1 of the same unit, and dies when these trap. `OwnFpu` is the
promise: a process has a unit to itself.

## 3. What is checked

Every run of TLC, with its bounds and what it shows:

| run | instance | what it shows |
|---|---|---|
| `cache` | 2 sets of 2 ways, 5 lines over 4 rows of the chips, 4 lanes | the cache and driver implement a RAM on the safe lanes, in which lines of one row have one place; no line has two slots; the line of a set used last survives; the proofs' inductive invariant holds |
| `cache_all_lanes` | 1 set, 3 lines | **violated**: odd bytes read back as zero, a fill damages the next slot |
| `cache_16mb` | 1 set, 4 lines over 2 rows | **violated**: a line loses what was written to it when the other line of its row is written |
| `mmu` | 2 entries, 1 wired, 2 lists, 2 pages, 2 frames, 2 address spaces, 1 way | lists linked, cached instructions mapped, translations those of `Tlb`: as listed, but for a denied store and a denied fetch |
| `dz11` | 2 lines of 2 slots, 2 characters, all control words and masks | each ring is a queue that reports its losses, across resets and switching off; interrupt follows the lines, sending goes to enabled lines, typing never lowers the interrupt, highest line first |
| `race` | ring of 2, a counter that wraps after 4, the timer, `FairSpec` | the count of the ring stays in bounds in all interleavings; the clock's interrupt is raised again and again, acknowledged or not |
| `exceptions` | a program of 8 instructions, 4 addresses of the kernel, 3 levels of exceptions, `FairSpec` | the program runs as `UserCode` does; handlers return where and in the mode they should; user mode never leaks; links do not outlive a handler; interrupts get in |
| `clock` | days of 8 seconds, 10 years, every moment, a clock never set, edge values | each update shows the next moment, through every carry, except at the ends of misjudged Februaries and of the last two years, where none does; binary values and twelve hour hours read back, and which values in BCD do; the interrupt agrees with IRQF |
| `disk` | cards of 3 kinds with at most one flaw and 2 sectors, transfers of 1 or 2 blocks, 3 faults | the driver is a block device; a card served as initialized is; the machine's transfers move its data; every call ends but where the driver asserts |
| `boot` | 3 sizes of RAM, a queue of 2, real addresses, `FairSpec` | a machine that runs without an alarm is set up; one region for an address; the clock ticks only when set; core 1 never waits; output gets out |
| `execute` | words of 4 bits, 3 registers, 2 words of RAM, every operand and address | sums, products and quotients are exact or trap; an unaligned word is put together again; no store to what may not be written; each instruction does what the manual says |
| `fpu` | 2 processes, one pair of registers | each process has a unit to itself; flags stick; a lock is never lifted; the kernel gets through unless a process has locked the unit |

Why these bounds are enough to be interesting:

- *cache*: five lines put three into one set of two ways, so each access may
  evict, dirty or clean; of the three, two have one row, and either may be
  written first, evicted, and filled from the other's row. Two sets let a fill
  spill into another set's slot. Four lanes are the two that a spill reaches, a
  safe one and an odd one. Junk is one value here; the proof covers every value.
- *mmu*: with two entries and two lists an entry is alone in a list, its head,
  or its tail, and moves among all of these; the two can match the same page;
  one way makes every fill evict. What a call has answered is not read again, so
  states that differ in nothing else are taken for one (`VIEW`, `Kept`). Middle entries need three; for the
  list structure (`Linked`, search ends) proofs cover any number of entries.
- *dz11*: a ring of two is empty, wraps, fills, overflows; the alarm count of 2
  and the counter limit of 3 are reached; two lines have an order.
- *race*: a ring of two is empty, partly full, full; a counter that wraps
  after 4 shows a wrap below zero at once. Updates that are pending on
  `cpu.cause` are at most two. No step is bounded by a counter.
- *exceptions*: the program has a branch with a trap in its slot, a likely
  branch with SC in its slot, a jump, LL, a conditional trap and an
  instruction of the kernel; one loop never traps, so that only interrupts end
  it. Three levels are one more than Status holds beside the current pair:
  both a handler that relies on `prev`, `old` and one that has to save them
  occur. Four kernel addresses let a handler begin at either vector, step, and
  branch with a slot; the handlers' order of work does not depend on them.
- *clock*: the tests in the code are equalities on incremented registers; small
  limits meet each one. Ten years, 1900 to 1909, hold leap years of the calendar
  only, of the code only, and of both, a century year, and the end of the cycle
  (`TicksPerSecond` is 2, so that a step may or may not end a second). Months
  keep their lengths and the week its seven days. `EdgeBytes` holds both sides
  of each limit and digit boundary.
- *disk*: two blocks make a transfer of several; sector 1 of a card that counts
  in bytes is at address 2, that of one that counts in blocks at 1; the
  transfer after the end is refused. One command that is not answered costs
  three faults, so three let any exchange fail, or three go wrong in different
  places; two passes let each loop end early, late and not in time. Faults are
  bounded, time is not: a behaviour has any number of calls. A card has one flaw at
  most here, the proofs allow any set of them.
- *boot*: addresses and sizes are the code's; RAM has the size of the
  configuration, one that covers the register of bus errors, and one that
  covers every device. Messages as long as the queue fill it and
  overflow when the next one begins. `Word` is 2^30, as TLC's integers have 32
  bits; every region of the code ends below it, and the proofs leave it open.
- *execute*: shifts and masks are multiples of the width of a byte, so bytes of
  one bit show which byte goes where; memory with one bit set, or all but one,
  tells every byte from its neighbours. Two operands take all pairs of words of
  four bits, which have every case of sign and carry. User pages are one word
  long, so that an unaligned pair of accesses meets two pages, and the kernel may
  map them anew between any two instructions.
- *fpu*: one process executes everything, the other what reads its registers,
  its condition and its flags; "zero" and "nan" as words make every kind of float and
  double.

**Fairness.** Three runs assume any. `exceptions`: `WF_vars(cpuCycle)`, as core 1
calls it for ever (`soc_rp2040.c:255`); devices need do nothing, and nothing is
assumed of which way branches go. `race`: `WF_vars(Timer)`. A callback of
`add_repeating_timer_us` runs from a hardware alarm on core 0, is never
cancelled (`main.c` keeps it for good) and runs to its end, as the loop of core 0
cannot interrupt it. Neither core 1 nor the loop is assumed to do anything.
`boot`: `WF_vars(Core0)` and `WF_vars(Core1)`, each core being in a loop
without a wait; neither the timer nor the one who types is assumed to do
anything. That every call of the disk ends (`EveryCallEnds`) needs no fairness:
it states that each step of the driver lowers a rank, or is the one into the
assertion.

**Undefined behaviour.** Data races are taken at the granularity of source
statements: a statement that changes a field loads its byte or word and stores
it back, the Cortex-M0+ having no instruction that does both. A compiler that
merges the assignments of several statements into one store allows fewer
interleavings, not others. The out-of-bounds reads of the clock return any byte
of a set, a quotient that does not fit any HI and LO, a comparison of a NaN
under `-Ofast` any relation. The write loop of `accessPSRAM` stores one cell
behind its buffer on the stack (`psram.c:355-359`); what the compiler keeps there is
not known, and the model assumes that nobody needs it: the cell serves only as
what a later fill reads there.

**Deadlock** is checked in every run but two: programs of `execute` end, and the
kernel of `fpu` stops after an exception of its own.

### What the violated runs show

- `cache_all_lanes`: `initPSRAM` (`psram.c:313-323`) takes it for granted that
  24 bytes written are read back; but RAM as `accessPSRAM` leaves it does not
  even read the same twice: the first read of a line finds what the copy loop
  leaves of it, a later one may find its first bytes replaced by the fill of the
  slot before, and odd bytes come back as zero always. In the trace nothing is
  written: the two reads are enough. It follows that the self test of this commit
  cannot succeed: `core1_entry` then panics, and starts the emulator all the same
  (`main.c:101-111`), while core 0 stops once its queue is empty (`console.c:51`).
- `cache_16mb`: `umips_config.h:8-9` advertises 16 MB; addresses 8 MB apart are
  sent to the same cells.

### Where the code is not what it says

Four more places where the code departs from its comments, its tables or the
chip it names are stated by properties that hold: each names the departure as
exactly as the rest, and fails if it is other than described.

- `ImplementsTlb`: `cpu.c:151` and `173-177` give a store of the user to the
  kernel's addresses AdES, and a fetch an address error. The store gets AdEL; the
  fetch gets through when the kernel has fetched from there before.
- `NextSecond`: the chip named at `ds1287.c:14` has a leap year every four years,
  the code every three (255): 1902 has a 29 February, 1904 has none. The year
  register takes 0 to 99 (142), and the count goes from 98 to 0 (279).
- `RoundTrip`: `ds1287.c:38` says "internally our data is always binary. we
  change format on read/write". An hour of the day in BCD loses one on the way
  (89, and 121 does not give it back); other registers are clamped to a binary
  limit before they are converted (59-65), so that 59 seconds become 41.
- `EveryCallEnds`: the assertion at `sd_card_spi.c:639`, that the structure of a
  CSD is 0 or 1, is about what a card sends, and does not return
  (`my_debug.c:36-46`); the error path behind it (640, 1099-1104) is not
  reached. A card of more than 2 TB has such a CSD.

## 4. What is proved

`tlapm` checks each theorem for every value of the constants that meets the
assumptions of the modules (`SizeAssumption`, `ByteAssumption`,
`TlbAssumption`, `HashAssumption`, `MmuAssumption`, `DZ11Assumption`,
`IrqRaceAssumption`, `DS1287Assumption`, `SdAssumption`, `CodeAssumption`, `KernelAssumption`,
`BootAssumption`, `FpuShareAssumption`, `ExecuteAssumption`), which say that sizes are positive,
that the counter of a ring can count it, that named pages and frames exist, that an empty way of the instruction cache
names no page (`icache.c:22` fills it with ones), that segments are disjoint,
that a hash is a function, that the machine writes bytes to registers that
exist, that garbage is no datum, that no branch of the program is in the slot
of another or leads into the slot of a jump, that the kernel lies above the
program, that sizes of RAM and ROM are addresses, that pages divide the user's
half of the address space into whole words, and that a program consists of
instructions.

**CacheL2_proofs.** `TypeCorrect`; `LastUsedSafe`, from types alone;
`Inductive`, `NoAliases` and `CacheRefinesRam`, for any number of lines over any
number of rows, the configured 16 MB over 8 MB included. `EnoughChips` adds that
where the chips have a row for each line, the cache implements the RAM in which
no line disturbs another (`WholeRam`). `NoAlias` alone is not inductive: a
search compares tags within a set, so one needs to know that a slot holds lines
of its own set only; and for the refinement, that a slot that is clean agrees
with the chips on the safe lanes unless another line of its row has been
written, as it is dropped without a write-back, and that what is written back has been
written. `IInv` is the conjunction. In the refinement a hit changes one
slot and what is seen of its line (`HitView`); a miss moves a line from chips to
a slot and another the other way, and what is seen of every line that is alone in its
place stays (`MissView`); the memcpy is then the abstract write.

**DZ11_proofs.** `DeviceInv` has the types and says of each bit that
`dz11PrvRecalc` calculates that it agrees with what it is calculated from; it
is inductive, as every handler that changes the one ends with the other
(`DeviceIsSound`). `IrqIsFollowing`, `SendsWhereEnabled` and `TypingRaises`
follow: the interrupt alone, or the line that TRDY names alone, is not
inductive, each being read off the bits of the recalc before. `RingsAreQueues`
is the refinement of `Silo`: the queue of a line is its ring from the read
pointer on, `rxBytesUsed` characters long; storing behind the last appends to
it, whether or not the index wraps (`PutAppends`), and moving the pointer drops
its head (`DropTails`).

The count of a ring with the calls taken apart is there too: `RingInBounds`.
Bounds are not inductive: core 0 stores a count it loaded some time ago. The invariant (`CountsHold`)
rests on the division of work: only core 0 adds, only core 1 takes away or
clears. So between its test and its store core 0 can only have seen the count
fall, and its test for room stays true; core 1 likewise can only have seen it
rise. Updates may be lost; bounds are not.

**Boot_proofs, the clock.** `IrqFollowsFlag`; `BinaryReadsBack`, for all bytes and
registers; `BcdReadsBack`, which says of every byte in BCD whether it reads back;
`TimesReadBack`, the two together; and
`ClockKeepsTime`, for every length of the minute, the hour, the
day and the century up to the real ones, where the run has ten years of short
days: by the calendar as it is, an update shows the next moment if and only if it
is at neither of the two kinds of moments `LeapMissed` and `CenturyMissed` name. That a
register holds a byte (`TimesAreBytes`) is what the step needs: for a moment of
the calendar no increment reaches the end of a byte (`AdvanceFields`), so each
carry goes as far as the calendar says. In a year that the code judges right its table is the calendar's
(`RulesAgree`, `TableAgrees`). The days are counted by two recursive functions,
whose equations `YearsAddUp` and `MonthsAddUp` solve for a hundred years, so the day
after the last of a month, of a leap February and of a year has the next number
(`NextDay`). The time of day is a number with digits of
three bases, and `NextMoment` carries from each digit to the next. At the moments
that are named, the update shows a day or a year that is none, or midnight of a day
that does not follow (`LeapIsMissed`, `CenturyIsMissed`); different days of the
century have different midnights (`NotTheNextDay`).

**Mmu_proofs.** `MmuTypeCorrect`; `InstructionsAreMapped`: a translation depends
on entries, lists and address space only, and every action that changes one of
these empties the cache, so `CachedIsMapped` is inductive with the types;
`ListsStayLinked`: `HashRemove` leaves lists that are linked but for the entry
taken out (`LinkedBut`), whatever its place, and `HashAdd` puts it in again;
`SearchesEnd`: there is a rank of entries that falls along `nextIdx`
(a removal shortens lists, an addition puts the newest on top), so no
sequence of writes ties a list into a ring. `HashedIsTable` is the refinement
of `Tlb`. The search of the code walks one list for as many steps as there are
entries; a walk that has not ended by then would have met some entry twice,
which the falling rank forbids (`WalksEnd`). Among the entries of the list that
the walk has not met there would be one of the highest rank, and the entry
before it, or the head, would lead to it (`WalksMeet`). So the walk meets all
of the list, and as an entry that matches is in the list of its page, the
search answers with one exactly when the table has one (`SearchAnswers`). The
rest is that the tests of `cpuPrvMemTranslate` come to the exceptions of the
list (`CodeAnswers`), and that a hit serves what the table would give the kernel
now (`HitMaps`).

**Exceptions_proofs.** For every program, place of the vectors and depth:
`PrivilegeStays`, `HandlersReturn`, `LinksStayIntact`, `ProgramsDoNotNotice`,
`TypeCorrect`. None of their properties is inductive, since EPC and the pairs of
Status hold only the newest exceptions. `HandlersInv` says where the rest is:
each level's place is in EPC while its handler has not saved it and in its frame
after that; its pair is in Status as far down as the levels above have shifted
it, or in a frame. It is inductive with the shapes of variables (`Shape`) and so
`HandlersKeepEverything`. Its proof sorts the steps (`StepKinds`) into an
exception taken, a return, a step of the program, a step of a handler on saved
state and any other step of a handler. In the refinement the program is at
what the oldest exception interrupted, which from a slot is its branch; `Resumes`
says that it goes on there or, when it trapped, at what follows.

**Boot_proofs, the start.** For every size of RAM and of the table, the queue and the
messages: `RegionsDisjoint` and `AddressHasOneServer`, since `memRegionAdd`
tests both beginnings, a region that begins in the new one and the new one that
begins in a region, and slots that are not used hold no address;
`RunningIsSetUp`; `TicksComeLate`; `ErrorsAreCurrent`; `TypeCorrect`.
`RunsSetUp` speaks of the end of the start and is not inductive. `BootInv` says
for each place core 1 has passed that its work is done or that an alarm has been
raised, where an alarm is a panic that is being printed or its flag: nothing
takes the flag away, and `console_panic_uart` sets it at its end. That a region
once added stays and is found needs the disjointness.

**FpuShare_proofs.** For any processes, instructions, words and number of
registers: `TypeCorrect`, `OnlyLocksKill`, `LocksAreForEver`, `FlagsStay`, and the refinement
`ProcessesDoNotNotice`. `ShareInv`: while the kernel lives, CU1 is set exactly
when the process that runs owns the unit. So an instruction that reaches the
unit reaches the right one; and a save followed by a load changes no process but
in the causes, which no instruction shows because every one clears them first
(`NoCause`).

**Storage_proofs.** For any kind and size of card, any number of tries, of
polls and of faults, and transfers of any length: `DiskIsSound`,
`InitializedIsReady`, `HypercallsTransfer`, `CallsComeToAnEnd` and the
refinement `DiskIsADevice`. None of the properties is inductive; `Inv`, which
is, has seven parts. `TypeInv` has the types. `InitInv` is what
`InitializedIsReady` rests on: the loop that waits for the card may end
without an error while the card is idle, but the size is stored before the last
command of the start, CMD16, and a card that is still idle refuses that.
`CountInv` bounds the passes of the two loops. `CallInv` says which
calls can be served at each place of the driver. `StreamInv` says that a card
which is to be trusted transfers, if at all, what was opened, from the block
the driver is at. `PeaceInv` says that a transfer nothing has gone wrong in has
its blocks on both sides and no error. `GlueInv` ties the call to the hypercall
or the client it is made for, and the one buffer to its sector. In the
refinement one block is a transfer step, a command a step of the same call that
may disturb it, an answer what the driver returns. The rank of
`CallsComeToAnEnd` is the place of the driver, numbered downwards to the end of
the call, and within a place what its loop has left: tries of CMD0, polls of
ACMD41, blocks of the transfer; the one step that does not lower it is that into
the assertion, and the card's CSD is then of an unknown structure.

**Execute_proofs.** For bytes of any width, any registers, mappings and
programs: `TypesHold`, `StoresAreAllowed`, `ArithmeticExact`, `HalvesMakeWords`
and the refinement `ExecuteImplementsIsa`; all the run checks. What has to be
shown of data is that words, which the code shifts and masks as wholes, are four
digits (`WordOfBytes`): a shift by whole bytes moves the digits
(`ShiftsLeft`, `ShiftsRight`), clearing bits by two shifts clears digits
(`Clears`), and *or* of numbers that share no bit is their sum (`OrIsSum`). So
LWL, LWR, SWL and SWR put together the digits of two words as
the manual says, at each of the four places in a word (`HalvesOfWords`,
`HalfBytes`); the sum of bytes that a load makes has these bytes as
digits, and its sign extended fills the others (`LoadedIs`, `ExtendedIs`).
`ExecuteImplementsIsa` sorts the rest: an exception, the kernel and a change of the
mapping change nothing the program sees, and an access that gets through reaches
exactly the physical bytes of its addresses, as user pages do not divide words
(`AccessIs`). `ArithmeticExact` needs that a number has one quotient and one
remainder (`QuotientExact`), that the product of two signed words fits in two
words (`ProductExact`), and the invariant that a program of one
instruction still finds what it began with or has its result (`ExactInv`).

`HalvesMakeAWord` is not inductive, as it speaks of the end of two
instructions. `LoadInv` and `StoreInv` say what holds between them:
each byte covered by the half that is done is in the register, or in
memory, already. The other half covers what is left (`CoversAll`) and
returns what it does not cover; the address is the same for both, since neither
changes the register it is calculated from, also where it wraps at the
end of the address space (`LeftAddress`); and for a store the four bytes are
four places in memory (`PhysDistinct`), so none is overwritten.

Two attempts failed on states the run does not have, and the model says so now: a
load into register 0 or into the register that addresses the word does not leave
the word in a register, which `HalvesMakeAWord` had claimed; and a MULT with an
immediate operand, which no encoding has, was a member of the set of programs.

### How data defined by recursion is dealt with

The provers cannot instantiate the induction theorems of the library, which
take an operator. What needs induction here is over numbers only, and is done
with sets: a set of numbers that is not empty has a least element, since `<` is
well founded (`Least`), hence a set that has 0 and the successor of each of its
numbers has all of them (`Counting`). By the same lemma the equation of a
recursive function has a solution, and the function is what its equation says
(`WalksExist`, `SumsExist`, `RecursionIsSound`). In this way powers of two, sums
of bits and sums of loaded bytes are computed (`PowersStep`, `BitSumStep`,
`LoadSumStep`).

### Only model-checked

- `TicksGetThrough`, `UserIsInterrupted`, `BootCompletes`, `OutputDrains`:
  liveness under fairness, which is out of reach of the provers.
- `ImplementsRam` and `ImplementsWholeRam`, which are violated; what holds of the code
  in their place, `ImplementsSafeRam`, is proved.

## 5. Not modelled

- *FatFs and the rest of the SD library.* Most lines of the repository are
  vendored and called by nobody: `ffunicode.c` (tables of characters), `ff.c` (a
  file system; the emulator's disk is raw sectors), iostream and command line
  helpers, the SDIO driver and its PIO program, which the one card's configuration
  (`sd_hw_config.c`, SPI) does not reach. They carry nothing of the emulator's logic.
- *L1 cache* (`psram/cache.c`): every call of it is commented out
  (`psram.c:125-164`).
- *Bytes on buses*: the bit-banged PSRAM protocol, DMA and byte exchange of
  `spi.c` with the assertions on the controller's own hardware (`spi.c:221`,
  `sd_spi.c:102`, `sd_card_spi.c:820`); the set-up of clocks, voltage and pins.
- *BadVAddr, Context*; the RAM of the clock chip; numeric results of the FPU; the
  hypercalls that report the memory map and put one character.
- *USB descriptors*: tables for a console that is commented out.

## 6. The plan

Done, in this order: the memory path (RAM is what everything else stands on),
the serial controller, the shared interrupt state, the clock, address
translation, the cycle of the CPU; then the disk, the start with console,
memory map and bus, what instructions do, and the FPU. Then proofs, component by
component, until every safety property that the runs check was a theorem. What
is left:

1. Of the clock, what happens to a time outside the calendar: from which of the
   times a machine can write the clock gets back into it.
2. Of programs, several unaligned accesses in a row that share registers:
   `HalvesMakeAWord` speaks of programs that are one pair, `ImplementsIsa` of
   each instruction of any program.
