-------------------------------- MODULE Boot --------------------------------
(***************************************************************************)
(* The start of the emulator (main.c, startEmu of emulator/soc/            *)
(* soc_rp2040.c, initPSRAM of psram/psram.c) and its accesses to memory    *)
(* and devices after that, with the console and the timer of core 0.       *)
(*                                                                         *)
(* Core 1 goes through the places of Stage; a place is left when what it   *)
(* has to print is printed; messages in a row are one.  A panic is printed *)
(* like anything else, and core 1 goes on.                                 *)
(***************************************************************************)
EXTENDS Integers

CONSTANTS
    MaxRegions, Word,
    QueueLen, MsgLen,
    RamSizes,  \* EMULATOR_RAM_MB in bytes, as it may be configured
    RomSize,   \* size of gRom
    Probes,    \* addresses the machine uses
    Words      \* what it writes to the CSR of the DEC bus

VARIABLES
    regions, queue, shldpanic, out, panics, core0, typed, mBusErrorAddr, mBusCsr,
    stage,    \* where core 1 is
    ramAmt,   \* the size of RAM
    chips,    \* what is wrong with the PSRAM chips
    card,     \* the driver of the card has started
    globalReadyToTickRTC,
    clockSet, \* ds1287init has set the registers of the clock
    ticked,   \* ds1287step has been called
    failed,   \* history: the address of the last data access that failed
    got       \* what the last access has read of the register of errors, or -1

Serves == {"RAM", "ROM", "DECerror", "DECcsr", "DZ11", "DS1287"}

M == INSTANCE MemMap
B == INSTANCE DecBus WITH Address <- M!Address
C == INSTANCE Console

progress == <<stage, ramAmt, chips, card, globalReadyToTickRTC, clockSet, ticked>>
console == <<queue, shldpanic, out, panics, core0, typed>>
bus == <<mBusErrorAddr, mBusCsr, failed, got>>
vars == <<regions, console, bus, progress>>

RomBase == 532676608

ASSUME BootAssumption ==
    /\ MaxRegions \in Nat \ {0}
    /\ Word \in Nat
    /\ RamSizes \subseteq 1 .. Word - 1
    /\ RomSize \in Nat \ {0} /\ RomBase + RomSize < Word
    /\ Probes \subseteq M!Address
    /\ QueueLen \in Nat \ {0}
    /\ MsgLen \in Nat \ {0}

Stage == {"psram", "greet", "RAM", "ROM", "DECerror", "DECcsr", "DZ11",
          "DS1287", "card", "hello", "cpuInit", "ready", "cycle"}

After == [here \in Stage |->
    CASE here = "psram" -> "greet"     [] here = "greet" -> "RAM"
      [] here = "RAM" -> "ROM"         [] here = "ROM" -> "DECerror"
      [] here = "DECerror" -> "DECcsr" [] here = "DECcsr" -> "DZ11"
      [] here = "DZ11" -> "DS1287"     [] here = "DS1287" -> "card"
      [] here = "card" -> "hello"      [] here = "hello" -> "cpuInit"
      [] here = "cpuInit" -> "ready"   [] OTHER -> "cycle"]

(* The region each device asks for. *)
Wanted(f) ==
    CASE f = "RAM"       -> [pa |-> 0, sz |-> ramAmt, aF |-> f]
      [] f = "ROM"       -> [pa |-> RomBase, sz |-> RomSize, aF |-> f]
      [] f = "DECerror" -> [pa |-> 385875968, sz |-> 16777216, aF |-> f]
      [] f = "DECcsr"   -> [pa |-> 503316480, sz |-> 16777216, aF |-> f]
      [] f = "DZ11"      -> [pa |-> 469762048, sz |-> 16777216, aF |-> f]
      [] f = "DS1287"    -> [pa |-> 486539264, sz |-> 16777216, aF |-> f]

(* No cell fails, no chip answers, the first cell fails or another one.   *)
Chips == {"good", "silent", "cell0", "cell1"}

Init == /\ M!MapInit
        /\ B!DecInit
        /\ C!ConsoleInit
        /\ stage = "psram"
        /\ ramAmt \in RamSizes
        /\ chips \in Chips
        /\ card = FALSE
        /\ globalReadyToTickRTC = FALSE
        /\ clockSet = FALSE
        /\ ticked = FALSE
        /\ failed = 0
        /\ got = -1
-----------------------------------------------------------------------------
(* Core 1 has nothing left to print. *)
At(here) == /\ stage = here
            /\ C!Quiet
            /\ UNCHANGED <<queue, shldpanic, core0, typed>>

Goto(there) == /\ stage' = there
               /\ UNCHANGED <<ramAmt, chips>>

Booting == UNCHANGED <<mBusErrorAddr, mBusCsr, failed, got>>

(* What initPSRAM returns: a cell that fails at position i returns -10 i,  *)
(* which is no negative number for the first.  Which cells fail is for     *)
(* module CacheL2.                                                         *)
initPSRAM == CASE chips = "good" -> 1
               [] chips = "silent" -> -1
               [] chips = "cell0" -> 0
               [] chips = "cell1" -> -10

(* Mutant: an error is a negative number. *)
SelfTestFails_negative == initPSRAM < 0

SelfTestFails == initPSRAM < 1

(* A message, or a panic when something is wrong. *)
Says(wrong) == IF wrong THEN C!console_panic_uart ELSE C!Silent

core1_entry == /\ At("psram")
               /\ Says(SelfTestFails)
               /\ Goto("greet")
               /\ UNCHANGED <<regions, card, globalReadyToTickRTC, clockSet, ticked>>
               /\ Booting

(* Texts that are printed on the way. *)
Greets == /\ At("greet") \/ At("hello")
          /\ C!console_printf_uart
          /\ Goto(After[stage])
          /\ UNCHANGED <<regions, card, globalReadyToTickRTC, clockSet, ticked>>
          /\ Booting

(* RAM and ROM, decBusInit, whose second region is not asked for when the  *)
(* first is refused, dz11init and ds1287init.                              *)
Adds(f) ==
    /\ At(f)
    /\ M!memRegionAdd(Wanted(f))
    /\ Says(~ M!Addable(Wanted(f)))
    /\ Goto(IF f = "DECerror" /\ ~ M!Addable(Wanted(f)) THEN "DZ11" ELSE After[f])
    /\ clockSet' = (clockSet \/ f = "DS1287")
    /\ UNCHANGED <<card, globalReadyToTickRTC, ticked>>
    /\ Booting

(* sdCardInit, which module Storage has; of its three errors only the last  *)
(* can happen: sd_init_driver and sd_get_by_num(0) succeed always.         *)
StartsCard == /\ At("card")
              /\ card' \in BOOLEAN
              /\ Says(~ card')
              /\ Goto("hello")
              /\ UNCHANGED <<regions, globalReadyToTickRTC, clockSet, ticked>>
              /\ Booting

(* Mutant: the flag comes before cpuInit. *)
StartsCpu_early == /\ At("cpuInit") \/ At("ready")
                   /\ C!Silent
                   /\ Goto(After[stage])
                   /\ globalReadyToTickRTC' = TRUE
                   /\ UNCHANGED <<regions, card, clockSet, ticked>>
                   /\ Booting

(* cpuInit, and the flag the timer asks for. *)
StartsCpu == /\ At("cpuInit") \/ At("ready")
             /\ C!Silent
             /\ Goto(After[stage])
             /\ globalReadyToTickRTC' = (stage = "ready")
             /\ UNCHANGED <<regions, card, clockSet, ticked>>
             /\ Booting

startEmu == \/ \E f \in Serves : Adds(f)
            \/ StartsCard \/ StartsCpu \/ Greets
-----------------------------------------------------------------------------
Line == 32  \* bytes that a fetch asks for

(* What a device makes of an access: RAM takes all, ROM no writes, the     *)
(* registers of the DEC bus only those to their first word, and no fetch.  *)
(* Modules DZ11 and DS1287 have the other two.                             *)
Accepts(f, pa, size, write) ==
    CASE f = "RAM" -> {TRUE}
      [] f = "ROM" -> {~ write}
      [] f = "DECerror" -> {size = 4 /\ pa = Wanted(f).pa /\ ~ write}
      [] f = "DECcsr" -> {pa = Wanted(f).pa /\ size # Line}
      [] OTHER -> BOOLEAN

(* An access goes to the region that serves its address; one that no       *)
(* region serves is reported on the console, and so is what is written to  *)
(* the LEDs.                                                               *)
memAccess(pa, size, write, ok) ==
    IF M!Served(pa)
      THEN LET f == M!Server(pa)
           IN  /\ ok \in Accepts(f, pa, size, write)
               /\ IF ok /\ write /\ f = "DECcsr" THEN C!console_printf_uart
                                                ELSE C!Silent
      ELSE ok = FALSE /\ C!console_printf_uart

cpuPrvTakeBusError(pa) == B!decReportBusErrorAddr(pa)

Fails(pa) == /\ cpuPrvTakeBusError(pa)
             /\ failed' = pa
             /\ got' = -1
             /\ UNCHANGED mBusCsr

Succeeds(f, size, write, word) ==
    /\ IF f = "DECcsr" /\ write THEN B!WriteCsr(size, word)
                                 ELSE UNCHANGED mBusCsr
    /\ got' = IF f = "DECerror" THEN mBusErrorAddr ELSE -1
    /\ UNCHANGED <<mBusErrorAddr, failed>>

(* A load or a store of the running machine. *)
cpuPrvDataAccess(pa, size, write, word) ==
    /\ At("cycle")
    /\ \E ok \in BOOLEAN :
          /\ memAccess(pa, size, write, ok)
          /\ IF ok THEN Succeeds(M!Server(pa), size, write, word) ELSE Fails(pa)
    /\ UNCHANGED <<regions, progress>>

(* A fetch of a line of instructions.  One that fails takes the exception  *)
(* of a bus error but is not reported to the bus.                          *)
cpuInstrFetchCached(pa) ==
    /\ At("cycle")
    /\ \E ok \in BOOLEAN : memAccess(pa - (pa % Line), Line, FALSE, ok)
    /\ got' = -1
    /\ UNCHANGED <<regions, progress, mBusErrorAddr, mBusCsr, failed>>

(* The machine prints, or H_TERM asks for a panic. *)
Speaks == /\ At("cycle")
          /\ C!console_printf_uart \/ C!console_panic_uart
          /\ UNCHANGED <<regions, bus, progress>>

cpuCycle == \/ \E pa \in Probes, size \in {1, 4}, write \in BOOLEAN, word \in Words :
                  cpuPrvDataAccess(pa, size, write, word)
            \/ \E pa \in Probes : cpuInstrFetchCached(pa)
            \/ Speaks

Printing == C!Prints /\ UNCHANGED <<regions, bus, progress>>

Core1 == core1_entry \/ startEmu \/ cpuCycle \/ Printing

Core0 == C!ser_console_task /\ UNCHANGED <<regions, bus, progress>>

(* tickRTC, from the alarm that main sets before core 1 is ready. *)
tickRTC == /\ ticked' = (ticked \/ globalReadyToTickRTC)
           /\ UNCHANGED <<regions, console, bus, stage, ramAmt, chips, card,
                          globalReadyToTickRTC, clockSet>>

Typing == C!Types /\ UNCHANGED <<regions, bus, progress>>

Next == Core0 \/ Core1 \/ tickRTC \/ Typing

Spec == Init /\ [][Next]_vars

(* Each core runs its loop for ever, whatever the other does. *)
FairSpec == Spec /\ WF_vars(Core0) /\ WF_vars(Core1)
-----------------------------------------------------------------------------
(* The table of regions holds what was asked for, the queue of the console *)
(* never more than it has room for (mem.c:45-54, console.c:133).           *)
TypeOK == /\ C!ConsoleTypeOK
          /\ regions \in [M!Slot -> M!Region]
          /\ mBusErrorAddr \in M!Address
          /\ mBusCsr \subseteq B!CsrBits
          /\ stage \in Stage
          /\ ramAmt \in RamSizes /\ chips \in Chips

OneRegion == M!OneRegion

(* A machine that runs without a panic has been set up: the self test has  *)
(* passed, the card was started, and the address of every device finds     *)
(* that device, though each failure on the way only prints and goes on     *)
(* (main.c:104, soc_rp2040.c:233-244).                                     *)
RunsSetUp ==
    (stage = "cycle" /\ ~ shldpanic /\ ~ panics) =>
        /\ chips = "good"
        /\ card
        /\ \A f \in Serves : M!Served(Wanted(f).pa) /\ M!Server(Wanted(f).pa) = f

(* The timer runs from the start of main, but the clock does not tick      *)
(* until it and the processor it interrupts are set up (main.c:74).        *)
TicksFollowInit == ticked => clockSet /\ stage = "cycle"

(* What the machine reads from the register of bus errors is the address   *)
(* of the last load or store that failed, whatever accesses came after it  *)
(* and whatever fetches failed (decBus.c:21, 32, cpu.c:768, icache.c:77).  *)
ReadsLastError == got # -1 => got = failed

(* Core 1 boots whatever core 0 does: it waits neither for room in the     *)
(* queue nor for a core 0 that has stopped after a panic                   *)
(* (console.c:133).                                                        *)
BootCompletes == <>(stage = "cycle")

(* Core 0 keeps sending while characters wait, unless it has stopped: no   *)
(* pass of its loop waits for anything else (console.c:42-99).             *)
OutputDrains == []<>(queue = 0 \/ core0 \in {"take", "halted"})
=============================================================================
