----------------------------- MODULE Boot_proofs -----------------------------
(***************************************************************************)
(* Theorems about the start of the emulator, for every number of regions,  *)
(* size of RAM and ROM, length of the queue and of the messages; and about *)
(* the clock that it starts, for every length of the minute, the hour, the *)
(* day and the century up to those of the code, and every byte the machine *)
(* writes.                                                                 *)
(***************************************************************************)
EXTENDS Boot, DS1287, WellFoundedInduction, TLAPS

(* What a device asks for fits into the address space, begins in it and is *)
(* not empty.                                                              *)
LEMMA WantedFits ==
    ASSUME ramAmt \in RamSizes, NEW f \in Serves
    PROVE  /\ Wanted(f) \in M!Region
           /\ Wanted(f).sz # 0
           /\ Wanted(f).aF = f
           /\ Wanted(f).pa \in M!Address
           /\ M!Within(Wanted(f), Wanted(f).pa)
<1>1. /\ Word \in Nat /\ Word > 532676608 + RomSize /\ RomSize \in Nat \ {0}
      /\ ramAmt \in 1 .. Word - 1
    BY BootAssumption, SMT DEF RomBase
<1>2. ASSUME NEW pa \in Nat, NEW sz \in Nat \ {0}, pa + sz < Word,
             Wanted(f) = [pa |-> pa, sz |-> sz, aF |-> f]
      PROVE  /\ Wanted(f) \in M!Region
             /\ Wanted(f).sz # 0
             /\ Wanted(f).aF = f
             /\ Wanted(f).pa \in M!Address
             /\ M!Within(Wanted(f), Wanted(f).pa)
    <2>1. Word \in Nat /\ (pa + sz) % Word = pa + sz
        BY <1>1, <1>2, SMT
    <2>2. Wanted(f).pa = pa /\ Wanted(f).sz = sz /\ Wanted(f).aF = f
        BY <1>2
    <2>3. pa \in M!Address /\ sz \in M!Address
        BY <1>2, <2>1 DEF M!Address
    <2>4. M!Within(Wanted(f), pa)
        BY <1>2, <2>1, <2>2 DEF M!Within, M!End
    <2>5. Wanted(f) \in M!Region
        BY <1>2, <2>3 DEF M!Region
    <2>. QED  BY <1>2, <2>2, <2>3, <2>4, <2>5
<1>3. \E pa \in Nat, sz \in Nat \ {0} :
         pa + sz < Word /\ Wanted(f) = [pa |-> pa, sz |-> sz, aF |-> f]
    <2>1. CASE f = "RAM"
        <3>1. Wanted(f) = [pa |-> 0, sz |-> ramAmt, aF |-> f]
            BY <2>1, SMT DEF Wanted
        <3>. QED  BY <1>1, <3>1, SMT
    <2>2. CASE f = "ROM"
        <3>1. Wanted(f) = [pa |-> 532676608, sz |-> RomSize, aF |-> f]
            BY <2>2, SMT DEF Wanted, RomBase
        <3>. QED  BY <1>1, <3>1, SMT
    <2>3. CASE f = "DECerror"
        <3>1. Wanted(f) = [pa |-> 385875968, sz |-> 16777216, aF |-> f]
            BY <2>3, SMT DEF Wanted
        <3>. QED  BY <1>1, <3>1, SMT
    <2>4. CASE f = "DECcsr"
        <3>1. Wanted(f) = [pa |-> 503316480, sz |-> 16777216, aF |-> f]
            BY <2>4, SMT DEF Wanted
        <3>. QED  BY <1>1, <3>1, SMT
    <2>5. CASE f = "DZ11"
        <3>1. Wanted(f) = [pa |-> 469762048, sz |-> 16777216, aF |-> f]
            BY <2>5, SMT DEF Wanted
        <3>. QED  BY <1>1, <3>1, SMT
    <2>6. CASE f = "DS1287"
        <3>1. Wanted(f) = [pa |-> 486539264, sz |-> 16777216, aF |-> f]
            BY <2>6, SMT DEF Wanted
        <3>. QED  BY <1>1, <3>1, SMT
    <2>. QED  BY <2>1, <2>2, <2>3, <2>4, <2>5, <2>6 DEF Serves
<1>. QED  BY <1>2, <1>3

-----------------------------------------------------------------------------
(* The console.  Whatever happens to it, its variables keep their types    *)
(* and an alarm, once it has been raised, is not forgotten.                *)

Alarmed == panics \/ shldpanic

ConsoleStep == C!ser_console_task \/ C!Prints \/ C!Types

LEMMA ConsoleKeeps ==
    ASSUME C!ConsoleTypeOK, ConsoleStep
    PROVE  C!ConsoleTypeOK' /\ (Alarmed => Alarmed')
<1>. USE BootAssumption DEF C!ConsoleTypeOK, Alarmed
<1>1. CASE C!console_putc_uart
    BY <1>1 DEF C!console_putc_uart
<1>2. CASE C!PanicFlag
    BY <1>2 DEF C!PanicFlag
<1>3. CASE C!Look
    BY <1>3 DEF C!Look, C!Core0
<1>4. CASE C!Take
    BY <1>4 DEF C!Take, C!Core0
<1>5. CASE C!TestEmpty
    BY <1>5 DEF C!TestEmpty, C!Core0
<1>6. CASE C!TestPanic
    BY <1>6 DEF C!TestPanic, C!Core0
<1>7. CASE C!Typed
    BY <1>7 DEF C!Typed, C!Core0
<1>8. CASE C!Types
    BY <1>8 DEF C!Types
<1>. QED  BY <1>1, <1>2, <1>3, <1>4, <1>5, <1>6, <1>7, <1>8
            DEF ConsoleStep, C!ser_console_task, C!Prints

(* What core 1 begins to say where it is quiet. *)
Speech == C!console_printf_uart \/ C!console_panic_uart \/ C!Silent

LEMMA SpeechKeeps ==
    ASSUME C!ConsoleTypeOK, NEW here \in Stage, At(here), Speech
    PROVE  C!ConsoleTypeOK' /\ (Alarmed => Alarmed')
<1>. USE BootAssumption DEF At, C!Quiet
<1>1. C!ConsoleTypeOK'
    <2>1. MsgLen \in 0 .. MsgLen /\ 0 \in 0 .. MsgLen
        OBVIOUS
    <2>2. out' \in 0 .. MsgLen /\ panics' \in BOOLEAN
        BY <2>1 DEF Speech, C!ConsoleTypeOK, C!console_printf_uart,
                    C!console_panic_uart, C!Silent
    <2>. QED  BY <2>2 DEF C!ConsoleTypeOK
<1>2. Alarmed => Alarmed'
    BY DEF Alarmed, C!ConsoleTypeOK
<1>. QED  BY <1>1, <1>2

LEMMA PanicsAlarm ==
    ASSUME NEW wrong, Says(wrong), wrong
    PROVE  Alarmed'
BY DEF Says, C!console_panic_uart, Alarmed
-----------------------------------------------------------------------------
(* The memory map: a region is added where there was none, and only if it  *)
(* meets no other.                                                         *)

MapType == regions \in [M!Slot -> M!Region]

LEMMA Adding ==
    ASSUME MapType, M!OneRegion, NEW new \in M!Region, new.sz # 0,
           M!memRegionAdd(new)
    PROVE  /\ MapType'
           /\ M!OneRegion'
           /\ \A i \in M!Slot : regions[i].sz # 0 => regions'[i] = regions[i]
           /\ M!Addable(new) => \E i \in M!Slot : regions'[i] = new
<1>1. CASE ~ M!Addable(new)
    BY <1>1 DEF M!memRegionAdd, MapType, M!OneRegion
<1>2. CASE M!Addable(new)
    <2>1. PICK k \in M!Slot : /\ regions[k].sz = 0
                              /\ regions' = [regions EXCEPT ![k] = new]
        BY <1>2 DEF M!memRegionAdd, M!FirstUnused
    <2>2. MapType' /\ regions'[k] = new
        BY <2>1 DEF MapType
    <2>3. \A i \in M!Slot \ {k} : regions'[i] = regions[i]
        BY <2>1 DEF MapType
    <2>4. \A i \in M!Slot : regions[i].sz # 0 => regions'[i] = regions[i]
        BY <2>1, <2>3
    <2>5. ASSUME NEW i \in M!Slot \ {k}
          PROVE  /\ ~ M!Within(regions[i], new.pa)
                 /\ ~ (M!Within(regions[i], regions[i].pa)
                       /\ M!Within(new, regions[i].pa))
        <3>1. CASE regions[i].sz = 0
            <4>1. regions[i].pa \in 0 .. Word - 1
                BY BootAssumption DEF MapType, M!Region, M!Unused, M!Address
            <4>2. M!End(regions[i]) = regions[i].pa
                BY <3>1, <4>1, BootAssumption DEF M!End
            <4>3. new.pa \in 0 .. Word - 1
                BY BootAssumption DEF M!Region, M!Unused, M!Address
            <4>. QED  BY <4>1, <4>2, <4>3 DEF M!Within
        <3>2. CASE regions[i].sz # 0
            BY <1>2, <3>2 DEF M!Addable, M!Intersects, M!Within
        <3>. QED  BY <3>1, <3>2
    <2>6. ASSUME NEW i \in M!Slot, NEW j \in M!Slot,
                 NEW a \in {regions'[i].pa, regions'[j].pa},
                 M!Within(regions'[i], a), M!Within(regions'[j], a)
          PROVE  i = j
        <3>1. CASE i # k /\ j # k
            BY <2>3, <2>6, <3>1 DEF M!OneRegion
        <3>2. CASE i = k /\ j # k
            BY <2>2, <2>3, <2>5, <2>6, <3>2
        <3>3. CASE i # k /\ j = k
            BY <2>2, <2>3, <2>5, <2>6, <3>3
        <3>. QED  BY <3>1, <3>2, <3>3
    <2>7. M!OneRegion'
        BY <2>6 DEF M!OneRegion, M!Slot, M!Within, M!End
    <2>. QED  BY <2>2, <2>4, <2>7
<1>. QED  BY <1>1, <1>2

(* Regions that share an address share the beginning of one of them. *)
LEMMA OneServer ==
    ASSUME MapType, M!OneRegion,
           NEW i \in M!Slot, NEW j \in M!Slot, NEW a \in M!Address,
           M!Within(regions[i], a), M!Within(regions[j], a)
    PROVE  i = j
<1>1. regions[i].pa \in Int /\ regions[j].pa \in Int /\ a \in Int
    BY BootAssumption DEF MapType, M!Region, M!Unused, M!Address
<1>2. M!End(regions[i]) \in Int /\ M!End(regions[j]) \in Int
    BY BootAssumption DEF MapType, M!Region, M!Unused, M!Address, M!End
<1>3. CASE regions[i].pa =< regions[j].pa
    <2>1. M!Within(regions[i], regions[j].pa) /\ M!Within(regions[j], regions[j].pa)
        BY <1>1, <1>2, <1>3 DEF M!Within
    <2>. QED  BY <2>1 DEF M!OneRegion
<1>4. CASE regions[j].pa =< regions[i].pa
    <2>1. M!Within(regions[i], regions[i].pa) /\ M!Within(regions[j], regions[i].pa)
        BY <1>1, <1>2, <1>4 DEF M!Within
    <2>. QED  BY <2>1 DEF M!OneRegion
<1>. QED  BY <1>1, <1>3, <1>4
-----------------------------------------------------------------------------
(* How far core 1 has come. *)
Place(s) == CASE s = "psram" -> 0     [] s = "greet" -> 1  [] s = "RAM" -> 2
              [] s = "ROM" -> 3       [] s = "DECerror" -> 4
              [] s = "DECcsr" -> 5    [] s = "DZ11" -> 6
              [] s = "DS1287" -> 7    [] s = "card" -> 8   [] s = "hello" -> 9
              [] s = "cpuInit" -> 10  [] s = "ready" -> 11 [] s = "cycle" -> 12

LEMMA PlaceIs ==
    /\ Place("psram") = 0
    /\ Place("greet") = 1
    /\ Place("RAM") = 2
    /\ Place("ROM") = 3
    /\ Place("DECerror") = 4
    /\ Place("DECcsr") = 5
    /\ Place("DZ11") = 6
    /\ Place("DS1287") = 7
    /\ Place("card") = 8
    /\ Place("hello") = 9
    /\ Place("cpuInit") = 10
    /\ Place("ready") = 11
    /\ Place("cycle") = 12
BY DEF Place

LEMMA AfterIs ==
    /\ After["psram"] = "greet"
    /\ After["greet"] = "RAM"
    /\ After["RAM"] = "ROM"
    /\ After["ROM"] = "DECerror"
    /\ After["DECerror"] = "DECcsr"
    /\ After["DECcsr"] = "DZ11"
    /\ After["DZ11"] = "DS1287"
    /\ After["DS1287"] = "card"
    /\ After["card"] = "hello"
    /\ After["hello"] = "cpuInit"
    /\ After["cpuInit"] = "ready"
    /\ After["ready"] = "cycle"
    /\ After["cycle"] = "cycle"
BY DEF After, Stage

LEMMA Places ==
    /\ \A s \in Stage : Place(s) \in 0 .. 12
    /\ \A s \in Stage : After[s] \in Stage
    /\ \A s \in Stage \ {"cycle"} : Place(After[s]) = Place(s) + 1
    /\ \A f \in Serves : f \in Stage /\ Place(f) \in 2 .. 7
    /\ \A s, t \in Stage : Place(s) = Place(t) => s = t
<1>1. \A s \in Stage : Place(s) \in 0 .. 12
    BY PlaceIs DEF Stage
<1>2. \A s \in Stage : After[s] \in Stage
    BY AfterIs DEF Stage
<1>3. \A s \in Stage \ {"cycle"} : Place(After[s]) = Place(s) + 1
    BY PlaceIs, AfterIs DEF Stage
<1>4. \A f \in Serves : f \in Stage /\ Place(f) \in 2 .. 7
    BY PlaceIs DEF Stage, Serves
<1>5. \A s, t \in Stage : Place(s) = Place(t) => s = t
    BY PlaceIs DEF Stage
<1>. QED  BY <1>1, <1>2, <1>3, <1>4, <1>5

(* What core 1 has left behind is set up, or an alarm has been raised. *)
Present(f) == \E i \in M!Slot : regions[i] = Wanted(f)

SetUp == /\ Alarmed \/ stage = "psram" \/ chips = "good"
         /\ \A f \in Serves : Alarmed \/ Place(stage) =< Place(f) \/ Present(f)
         /\ Alarmed \/ Place(stage) =< Place("card") \/ card

(* The clock is set when its place is passed, and ticks at the end only. *)
Clocked == /\ globalReadyToTickRTC => stage = "cycle"
           /\ Place(stage) > Place("DS1287") => clockSet
           /\ ticked => stage = "cycle"

Errors == /\ mBusErrorAddr = failed
          /\ ReadsLastError

BootInv == TypeOK /\ OneRegion /\ SetUp /\ Clocked /\ Errors

LEMMA PresentStays ==
    ASSUME UNCHANGED <<regions, ramAmt>>
    PROVE  \A f \in Serves : Present(f)' <=> Present(f)
<1>1. \A f \in Serves : Wanted(f)' = Wanted(f)
    BY SMT DEF Wanted
<1>. QED  BY <1>1 DEF Present

LEMMA InitBootInv == Init => BootInv
<1>. SUFFICES ASSUME Init PROVE BootInv
    OBVIOUS
<1>. USE BootAssumption DEF Init
<1>1. 0 \in M!Address
    BY DEF M!Address
<1>2. TypeOK
    <2>1. C!ConsoleTypeOK
        <3>1. queue \in 0 .. QueueLen /\ out \in 0 .. MsgLen
            BY DEF C!ConsoleInit
        <3>. QED  BY <3>1 DEF C!ConsoleInit, C!ConsoleTypeOK
    <2>2. regions \in [M!Slot -> M!Region]
        BY DEF M!MapInit, M!Region
    <2>. QED  BY <1>1, <2>1, <2>2 DEF TypeOK, B!DecInit, B!CsrBits, Stage
<1>3. OneRegion
    <2>1. \A i \in M!Slot : regions[i].pa = 0 /\ regions[i].sz = 0
        BY DEF M!MapInit, M!Unused
    <2>2. \A i \in M!Slot : ~ M!Within(regions[i], 0)
        BY <2>1 DEF M!Within, M!End
    <2>. QED  BY <2>1, <2>2 DEF OneRegion, M!OneRegion
<1>4. SetUp
    <2>1. \A f \in Serves : Place(stage) =< Place(f)
        BY Places, PlaceIs
    <2>2. Place(stage) =< Place("card")
        BY PlaceIs
    <2>. QED  BY <2>1, <2>2 DEF SetUp
<1>5. Clocked
    BY PlaceIs DEF Clocked
<1>6. Errors
    BY DEF Errors, ReadsLastError, B!DecInit
<1>. QED  BY <1>2, <1>3, <1>4, <1>5, <1>6 DEF BootInv

(* A step of one of the devices that core 1 sets up on its way. *)
LEMMA Adds_BootInv ==
    ASSUME BootInv, NEW f \in Serves, Adds(f)
    PROVE  BootInv'
<1>. USE DEF BootInv
<1>1. /\ stage = f /\ f \in Stage /\ ramAmt \in RamSizes
      /\ ramAmt' = ramAmt /\ chips' = chips /\ card' = card
      /\ globalReadyToTickRTC' = globalReadyToTickRTC /\ ticked' = ticked
    <2>1. stage = f /\ Goto(stage') /\ UNCHANGED <<card, globalReadyToTickRTC, ticked>>
        BY DEF Adds, At, Goto
    <2>. QED  BY <2>1, Places DEF Goto, TypeOK
<1>2. Speech /\ At(f)
    BY DEF Adds, Says, Speech
<1>3. C!ConsoleTypeOK' /\ (Alarmed => Alarmed')
    BY <1>1, <1>2, SpeechKeeps DEF TypeOK
<1>4. /\ Wanted(f) \in M!Region /\ Wanted(f).sz # 0
      /\ \A g \in Serves : Wanted(g).sz # 0
    BY <1>1, WantedFits
<1>5. \A g \in Serves : Wanted(g)' = Wanted(g)
    BY <1>1, SMT DEF Wanted
<1>6. /\ MapType' /\ M!OneRegion'
      /\ \A i \in M!Slot : regions[i].sz # 0 => regions'[i] = regions[i]
      /\ M!Addable(Wanted(f)) => \E i \in M!Slot : regions'[i] = Wanted(f)
    BY <1>4, Adding DEF Adds, TypeOK, OneRegion, MapType
<1>7. /\ M!Addable(Wanted(f)) => stage' = After[f]
      /\ ~ M!Addable(Wanted(f)) => Alarmed'
      /\ stage' \in {After[f], "DZ11"}
      /\ stage' \in Stage
    BY PanicsAlarm, Places, <1>1 DEF Adds, Goto, Stage
<1>8. TypeOK'
    BY <1>1, <1>3, <1>6, <1>7 DEF TypeOK, MapType, Adds, Booting
<1>9. SetUp'
    <2>1. CASE ~ M!Addable(Wanted(f))
        BY <1>7, <2>1 DEF SetUp
    <2>2. CASE M!Addable(Wanted(f))
        <3>1. Place(stage') = Place(f) + 1 /\ Place(f) \in 2 .. 7
            BY <1>1, <1>7, <2>2, Places DEF Serves
        <3>2. ASSUME NEW g \in Serves, ~ Alarmed', Place(stage') > Place(g)
              PROVE  Present(g)'
            <4>1. CASE g = f
                BY <1>5, <1>6, <2>2, <4>1 DEF Present
            <4>2. CASE g # f
                <5>1. Place(stage) > Place(g)
                    BY <1>1, <3>1, <3>2, <4>2, Places
                <5>2. PICK i \in M!Slot : regions[i] = Wanted(g)
                    BY <1>3, <3>2, <5>1, Places, <1>1 DEF SetUp, Present
                <5>3. regions'[i] = Wanted(g)'
                    BY <1>4, <1>5, <1>6, <5>2
                <5>. QED  BY <5>3 DEF Present
            <4>. QED  BY <4>1, <4>2
        <3>3. Place(stage') =< Place("card")
            BY <3>1, PlaceIs
        <3>4. Alarmed' \/ chips' = "good"
            BY <1>1, <1>3 DEF SetUp, Serves
        <3>5. \A g \in Serves : Alarmed' \/ Place(stage') =< Place(g) \/ Present(g)'
            BY <3>1, <3>2, Places
        <3>. QED  BY <3>3, <3>4, <3>5 DEF SetUp
    <2>. QED  BY <2>1, <2>2
<1>10. Clocked'
    <2>1. stage # "cycle"
        BY <1>1 DEF Serves
    <2>2. ~ globalReadyToTickRTC' /\ ~ ticked'
        BY <1>1, <2>1 DEF Clocked
    <2>3. Place(stage') > Place("DS1287") => clockSet'
        <3>1. Place(stage') > 7 => f = "DS1287"
            BY <1>7, PlaceIs, AfterIs DEF Serves
        <3>2. f = "DS1287" => clockSet'
            BY DEF Adds
        <3>. QED  BY <3>1, <3>2, PlaceIs
    <2>. QED  BY <2>2, <2>3 DEF Clocked
<1>11. Errors'
    BY DEF Errors, ReadsLastError, Adds, Booting
<1>. QED  BY <1>6, <1>8, <1>9, <1>10, <1>11 DEF OneRegion

(* Any other step of core 1 from one place to the next. *)
LEMMA Onward ==
    ASSUME BootInv, stage \notin Serves \cup {"cycle"}, At(stage), Speech,
           stage' = After[stage],
           UNCHANGED <<regions, ramAmt, chips, clockSet, ticked>>, Booting,
           globalReadyToTickRTC' => stage' = "cycle",
           stage = "psram" => Alarmed' \/ chips = "good",
           stage = "card" => Alarmed' \/ card',
           stage # "card" => card' = card
    PROVE  BootInv'
<1>. USE DEF BootInv
<1>1. /\ stage \in Stage /\ stage' \in Stage
      /\ Place(stage') = Place(stage) + 1
      /\ Place(stage) \in 0 .. 12
    BY Places DEF TypeOK
<1>2. C!ConsoleTypeOK' /\ (Alarmed => Alarmed')
    BY <1>1, SpeechKeeps DEF TypeOK
<1>3. TypeOK'
    BY <1>1, <1>2 DEF TypeOK, Booting
<1>4. OneRegion'
    BY DEF OneRegion, M!OneRegion, M!Within, M!End
<1>5. SetUp'
    <2>1. Alarmed' \/ stage' = "psram" \/ chips' = "good"
        BY <1>2 DEF SetUp
    <2>2. ASSUME NEW f \in Serves, ~ Alarmed', Place(stage') > Place(f)
          PROVE  Present(f)'
        <3>1. Place(f) \in 2 .. 7 /\ Place(stage) # Place(f)
            BY <1>1, Places
        <3>2. Place(stage) > Place(f)
            BY <1>1, <2>2, <3>1
        <3>3. Present(f)
            BY <1>1, <1>2, <2>2, <3>1, <3>2 DEF SetUp
        <3>. QED  BY <3>3, PresentStays
    <2>3. \A f \in Serves : Alarmed' \/ Place(stage') =< Place(f) \/ Present(f)'
        BY <1>1, <2>2, Places
    <2>4. Alarmed' \/ Place(stage') =< Place("card") \/ card'
        <3>1. CASE stage = "card"
            BY <3>1
        <3>2. CASE stage # "card"
            <4>1. "card" \in Stage /\ Place("card") = 8
                BY PlaceIs DEF Stage
            <4>2. Place(stage) # 8
                BY <1>1, <3>2, <4>1, Places
            <4>3. Place(stage') =< 8 \/ Place(stage) > 8
                BY <1>1, <4>2
            <4>. QED  BY <1>1, <1>2, <3>2, <4>1, <4>3 DEF SetUp
        <3>. QED  BY <3>1, <3>2
    <2>. QED  BY <2>1, <2>3, <2>4 DEF SetUp
<1>6. Clocked'
    <2>1. ~ ticked'
        BY DEF Clocked
    <2>2. "DS1287" \in Stage /\ Place("DS1287") = 7 /\ Place(stage) # 7
        BY <1>1, PlaceIs, Places DEF Stage, Serves
    <2>3. Place(stage') > 7 => Place(stage) > 7
        BY <1>1, <2>2
    <2>4. Place(stage') > Place("DS1287") => clockSet'
        BY <2>2, <2>3 DEF Clocked
    <2>. QED  BY <2>1, <2>4 DEF Clocked
<1>7. Errors'
    BY DEF Errors, ReadsLastError, Booting
<1>. QED  BY <1>3, <1>4, <1>5, <1>6, <1>7

(* An access of the running machine fails, and is noted, or it succeeds.   *)
BusOK == /\ mBusErrorAddr \in M!Address
         /\ mBusCsr \subseteq B!CsrBits
         /\ Errors

LEMMA FailureNoted ==
    ASSUME BusOK, NEW pa \in Probes, Fails(pa)
    PROVE  BusOK'
BY BootAssumption DEF BusOK, Fails, cpuPrvTakeBusError,
   B!decReportBusErrorAddr, Errors, ReadsLastError

LEMMA SuccessKeeps ==
    ASSUME BusOK, NEW f, NEW size, NEW write, NEW word,
           Succeeds(f, size, write, word)
    PROVE  BusOK'
<1>1. mBusCsr' \subseteq B!CsrBits
    <2>1. CASE f = "DECcsr" /\ write
        <3>1. B!WriteCsr(size, word) /\ mBusCsr \subseteq B!CsrBits
            BY <2>1 DEF BusOK, Succeeds
        <3>2. {8192, 16384} \subseteq B!CsrBits
            BY DEF B!CsrBits
        <3>. QED  BY <3>1, <3>2 DEF B!WriteCsr
    <2>2. CASE ~ (f = "DECcsr" /\ write)
        BY <2>2 DEF BusOK, Succeeds
    <2>. QED  BY <2>1, <2>2
<1>2. Errors'
    BY DEF BusOK, Succeeds, Errors, ReadsLastError
<1>. QED  BY <1>1, <1>2 DEF BusOK, Succeeds

(* The running machine, the loop of core 0 and the printing change neither *)
(* the map nor what has been set up.                                       *)
LEMMA Running_BootInv ==
    ASSUME BootInv, C!ConsoleTypeOK', Alarmed => Alarmed', BusOK',
           UNCHANGED <<regions, progress>>
    PROVE  BootInv'
<1>. USE DEF BootInv, progress
<1>1. TypeOK'
    BY DEF TypeOK, BusOK
<1>2. OneRegion'
    BY DEF OneRegion, M!OneRegion, M!Within, M!End
<1>3. SetUp'
    <2>1. \A f \in Serves : Present(f)' <=> Present(f)
        BY PresentStays
    <2>. QED  BY <2>1 DEF SetUp
<1>4. Clocked'
    BY DEF Clocked
<1>. QED  BY <1>1, <1>2, <1>3, <1>4 DEF BusOK

LEMMA cpuCycle_BootInv ==
    ASSUME BootInv, cpuCycle
    PROVE  BootInv'
<1>. USE DEF BootInv
<1>1. "cycle" \in Stage
    BY DEF Stage
<1>2. BusOK
    BY DEF BusOK, TypeOK
<1>3. ASSUME NEW pa, NEW size, NEW write, NEW ok, memAccess(pa, size, write, ok)
      PROVE  Speech
    BY <1>3 DEF memAccess, Speech
<1>4. ASSUME At("cycle"), Speech, BusOK', UNCHANGED <<regions, progress>>
      PROVE  BootInv'
    <2>1. C!ConsoleTypeOK' /\ (Alarmed => Alarmed')
        BY <1>1, <1>4, SpeechKeeps DEF TypeOK
    <2>. QED  BY <1>4, <2>1, Running_BootInv
<1>5. ASSUME NEW pa \in Probes, NEW size \in {1, 4}, NEW write \in BOOLEAN,
             NEW word \in Words, cpuPrvDataAccess(pa, size, write, word)
      PROVE  BootInv'
    <2>1. At("cycle") /\ UNCHANGED <<regions, progress>>
        BY <1>5 DEF cpuPrvDataAccess
    <2>2. PICK ok \in BOOLEAN :
             /\ memAccess(pa, size, write, ok)
             /\ IF ok THEN Succeeds(M!Server(pa), size, write, word) ELSE Fails(pa)
        BY <1>5 DEF cpuPrvDataAccess
    <2>3. Speech
        BY <1>3, <2>2
    <2>4. BusOK'
        BY <1>2, <2>2, FailureNoted, SuccessKeeps
    <2>. QED  BY <1>4, <2>1, <2>3, <2>4
<1>6. ASSUME NEW pa \in Probes, cpuInstrFetchCached(pa)
      PROVE  BootInv'
    <2>1. At("cycle") /\ UNCHANGED <<regions, progress>>
        BY <1>6 DEF cpuInstrFetchCached
    <2>2. Speech
        BY <1>3, <1>6 DEF cpuInstrFetchCached
    <2>3. BusOK'
        BY <1>2, <1>6 DEF cpuInstrFetchCached, BusOK, Errors, ReadsLastError
    <2>. QED  BY <1>4, <2>1, <2>2, <2>3
<1>7. CASE Speaks
    <2>1. At("cycle") /\ Speech /\ UNCHANGED <<regions, bus, progress>>
        BY <1>7 DEF Speaks, Speech
    <2>2. BusOK'
        BY <1>2, <2>1 DEF BusOK, bus, Errors, ReadsLastError
    <2>. QED  BY <1>4, <2>1, <2>2
<1>. QED  BY <1>5, <1>6, <1>7 DEF cpuCycle

LEMMA Console_BootInv ==
    ASSUME BootInv, ConsoleStep, UNCHANGED <<regions, bus, progress>>
    PROVE  BootInv'
<1>1. C!ConsoleTypeOK' /\ (Alarmed => Alarmed')
    BY ConsoleKeeps DEF BootInv, TypeOK
<1>2. BusOK'
    BY DEF BootInv, TypeOK, BusOK, bus, Errors, ReadsLastError
<1>. QED  BY <1>1, <1>2, Running_BootInv

LEMMA tickRTC_BootInv ==
    ASSUME BootInv, tickRTC
    PROVE  BootInv'
<1>. USE DEF BootInv, tickRTC, console, bus
<1>1. TypeOK'
    BY DEF TypeOK, C!ConsoleTypeOK
<1>2. OneRegion'
    BY DEF OneRegion, M!OneRegion, M!Within, M!End
<1>3. SetUp'
    BY PresentStays DEF SetUp, Alarmed
<1>4. Clocked'
    BY DEF Clocked
<1>5. Errors'
    BY DEF Errors, ReadsLastError
<1>. QED  BY <1>1, <1>2, <1>3, <1>4, <1>5

LEMMA NextBootInv == BootInv /\ [Next]_vars => BootInv'
<1>. SUFFICES ASSUME BootInv, [Next]_vars PROVE BootInv'
    OBVIOUS
<1>1. CASE core1_entry
    <2>1. /\ stage = "psram" /\ At(stage) /\ stage' = "greet" /\ Speech
          /\ UNCHANGED <<regions, ramAmt, chips, clockSet, ticked, card,
                         globalReadyToTickRTC>>
          /\ Booting
        BY <1>1 DEF core1_entry, At, Goto, Says, Speech
    <2>2. ~ globalReadyToTickRTC
        BY <2>1 DEF BootInv, Clocked
    <2>3. Alarmed' \/ chips = "good"
        <3>1. SelfTestFails => Alarmed'
            BY <1>1, PanicsAlarm DEF core1_entry
        <3>2. CASE ~ SelfTestFails
            BY <3>2 DEF SelfTestFails, initPSRAM, BootInv, TypeOK, Chips
        <3>. QED  BY <3>1, <3>2
    <2>. QED  BY <2>1, <2>2, <2>3, Onward, AfterIs DEF Serves
<1>2. ASSUME NEW f \in Serves, Adds(f) PROVE BootInv'
    BY <1>2, Adds_BootInv
<1>3. CASE StartsCard
    <2>1. /\ stage = "card" /\ At(stage) /\ stage' = "hello" /\ Speech
          /\ UNCHANGED <<regions, ramAmt, chips, clockSet, ticked,
                         globalReadyToTickRTC>>
          /\ Booting
        BY <1>3 DEF StartsCard, At, Goto, Says, Speech
    <2>2. ~ globalReadyToTickRTC
        BY <2>1 DEF BootInv, Clocked
    <2>3. Alarmed' \/ card'
        BY <1>3, PanicsAlarm DEF StartsCard
    <2>. QED  BY <2>1, <2>2, <2>3, Onward, AfterIs DEF Serves
<1>4. CASE StartsCpu
    <2>1. /\ stage \in {"cpuInit", "ready"} /\ At(stage) /\ stage' = After[stage]
          /\ Speech /\ UNCHANGED <<regions, ramAmt, chips, clockSet, ticked, card>>
          /\ globalReadyToTickRTC' = (stage = "ready")
          /\ Booting
        BY <1>4 DEF StartsCpu, At, Goto, Speech
    <2>2. globalReadyToTickRTC' => stage' = "cycle"
        BY <2>1, AfterIs
    <2>. QED  BY <2>1, <2>2, Onward DEF Serves
<1>5. CASE Greets
    <2>1. /\ stage \in {"greet", "hello"} /\ At(stage) /\ stage' = After[stage]
          /\ Speech
          /\ UNCHANGED <<regions, ramAmt, chips, clockSet, ticked, card,
                         globalReadyToTickRTC>>
          /\ Booting
        BY <1>5 DEF Greets, At, Goto, Speech
    <2>2. ~ globalReadyToTickRTC
        BY <2>1 DEF BootInv, Clocked
    <2>. QED  BY <2>1, <2>2, Onward DEF Serves
<1>6. CASE cpuCycle
    BY <1>6, cpuCycle_BootInv
<1>7. CASE Core0 \/ Printing \/ Typing
    BY <1>7, Console_BootInv DEF Core0, Printing, Typing, ConsoleStep
<1>8. CASE tickRTC
    BY <1>8, tickRTC_BootInv
<1>9. CASE UNCHANGED vars
    <2>1. UNCHANGED <<regions, console, bus, progress>>
        BY <1>9 DEF vars
    <2>2. C!ConsoleTypeOK' /\ Alarmed' = Alarmed
        BY <2>1 DEF console, BootInv, TypeOK, C!ConsoleTypeOK, Alarmed
    <2>3. BusOK'
        BY <2>1 DEF BootInv, TypeOK, BusOK, bus, Errors, ReadsLastError
    <2>. QED  BY <2>1, <2>2, <2>3, Running_BootInv
<1>. QED  BY <1>1, <1>2, <1>3, <1>4, <1>5, <1>6, <1>7, <1>8, <1>9
            DEF Next, Core1, startEmu
-----------------------------------------------------------------------------
(* The inductive invariant: each place that core 1 has passed has done its *)
(* work, or an alarm has been raised and not forgotten (main.c:101-111,    *)
(* soc_rp2040.c:227-262).                                                  *)
THEOREM BootInvHolds == Spec => []BootInv
BY InitBootInv, NextBootInv, PTL DEF Spec

(* The table of regions, the queue and the registers keep their types,     *)
(* whatever is configured and typed.                                       *)
THEOREM TypeCorrect == Spec => []TypeOK
<1>1. BootInv => TypeOK
    BY DEF BootInv
<1>. QED  BY <1>1, BootInvHolds, PTL

(* No order of calls of memRegionAdd makes two regions overlap.            *)
THEOREM RegionsDisjoint == Spec => []OneRegion
<1>1. BootInv => OneRegion
    BY DEF BootInv
<1>. QED  BY <1>1, BootInvHolds, PTL

(* Not only the beginnings of regions: every address has one region at     *)
(* most, so that the order of the search in memAccess does not matter      *)
(* (mem.c:82-88).                                                          *)
THEOREM AddressHasOneServer ==
    Spec => [](\A i, j \in M!Slot : \A a \in M!Address :
                  M!Within(regions[i], a) /\ M!Within(regions[j], a) => i = j)
<1>1. BootInv => (\A i, j \in M!Slot : \A a \in M!Address :
                     M!Within(regions[i], a) /\ M!Within(regions[j], a) => i = j)
    BY OneServer DEF BootInv, TypeOK, OneRegion, MapType
<1>. QED  BY <1>1, BootInvHolds, PTL

(* A machine that runs and has raised no alarm is set up: memory, card and *)
(* every device, for every size of RAM.                                    *)
THEOREM RunningIsSetUp == Spec => []RunsSetUp
<1>1. BootInv => RunsSetUp
    <2>. SUFFICES ASSUME BootInv, stage = "cycle", ~ shldpanic, ~ panics
                  PROVE  /\ chips = "good"
                         /\ card
                         /\ \A f \in Serves : /\ M!Served(Wanted(f).pa)
                                              /\ M!Server(Wanted(f).pa) = f
        BY DEF RunsSetUp
    <2>1. chips = "good" /\ card
        BY PlaceIs DEF BootInv, SetUp, Alarmed
    <2>2. ASSUME NEW f \in Serves
          PROVE  M!Served(Wanted(f).pa) /\ M!Server(Wanted(f).pa) = f
        <3>1. ~ (Place(stage) =< Place(f))
            BY PlaceIs, Places
        <3>2. PICK i \in M!Slot : regions[i] = Wanted(f)
            BY <3>1 DEF BootInv, SetUp, Alarmed, Present
        <3>3. /\ Wanted(f).aF = f
              /\ Wanted(f).pa \in M!Address
              /\ M!Within(regions[i], Wanted(f).pa)
            BY <3>2, WantedFits DEF BootInv, TypeOK
        <3>4. \A j \in M!Slot : M!Within(regions[j], Wanted(f).pa) <=> j = i
            BY <3>3, OneServer DEF BootInv, TypeOK, OneRegion, MapType
        <3>5. \E k \in M!Slot : /\ M!Within(regions[k], Wanted(f).pa)
                                /\ \A j \in M!Slot : j < k => ~ M!Within(regions[j], Wanted(f).pa)
            <4>1. ~ (i < i)
                BY BootAssumption DEF M!Slot
            <4>. QED  BY <3>3, <3>4, <4>1
        <3>. QED  BY <3>2, <3>3, <3>4, <3>5 DEF M!Served, M!Server
    <2>. QED  BY <2>1, <2>2
<1>. QED  BY <1>1, BootInvHolds, PTL

(* The timer never ticks a clock that is not set up.                       *)
THEOREM TicksComeLate == Spec => []TicksFollowInit
<1>1. BootInv => TicksFollowInit
    BY PlaceIs DEF BootInv, Clocked, TicksFollowInit
<1>. QED  BY <1>1, BootInvHolds, PTL

(* What the machine reads from the register of bus errors is the address   *)
(* of the last load or store that failed (decBus.c:21, 32, cpu.c:768);     *)
(* fetches that fail leave it alone (icache.c:77).                         *)
THEOREM ErrorsAreCurrent == Spec => []ReadsLastError
<1>1. BootInv => ReadsLastError
    BY DEF BootInv, Errors
<1>. QED  BY <1>1, BootInvHolds, PTL
-----------------------------------------------------------------------------
(* The clock, of module DS1287.                                            *)

(* The interrupt is up exactly while register C says so                    *)
(* (ds1287.c:179-181, 299-303).                                            *)
THEOREM IrqFollowsFlag == ClockSpec => []IrqIsIRQF
<1>1. ClockInit => IrqIsIRQF
  BY DEF ClockInit, IrqIsIRQF
<1>2. IrqIsIRQF /\ [ClockNext]_clockVars => IrqIsIRQF'
  <2> SUFFICES ASSUME IrqIsIRQF, [ClockNext]_clockVars PROVE IrqIsIRQF'
    OBVIOUS
  <2>1. CASE ds1287step
    <3>1. PICK flags \in SUBSET {"PF", "UF", "AF"}, raise \in BOOLEAN :
             /\ ctrlC' = ctrlC \cup flags \cup (IF raise THEN {"IRQF"} ELSE {})
             /\ irq' = (irq \/ raise)
      BY <2>1, ZenonT(40) DEF ds1287step
    <3>2. "IRQF" \in ctrlC' <=> ("IRQF" \in ctrlC \/ raise)
      BY <3>1
    <3>3. irq' <=> (irq \/ raise)
      BY <3>1
    <3> QED
      BY <3>2, <3>3 DEF IrqIsIRQF
  <2>2. ASSUME NEW r \in Written, NEW v \in Bytes, WriteTime(r, v)
        PROVE  IrqIsIRQF'
    BY <2>2 DEF WriteTime, IrqIsIRQF
  <2>3. CASE ReadC
    BY <2>3 DEF ReadC, IrqIsIRQF
  <2>4. ASSUME NEW p \in Periods, WriteA(p)
        PROVE  IrqIsIRQF'
    BY <2>4 DEF WriteA, IrqIsIRQF
  <2>5. ASSUME NEW word \in CtrlBWords, WriteB(word)
        PROVE  IrqIsIRQF'
    BY <2>5 DEF WriteB, IrqIsIRQF
  <2>6. CASE UNCHANGED clockVars
    BY <2>6 DEF clockVars, IrqIsIRQF
  <2> QED
    BY <2>1, <2>2, <2>3, <2>4, <2>5, <2>6 DEF ClockNext
<1> QED
  BY <1>1, <1>2, PTL DEF ClockSpec
-----------------------------------------------------------------------------
(* Every register of the time holds a byte. *)
TimesInv == gRTC \in [Reg -> Byte]

LEMMA FromBcdIsByte ==
    ASSUME NEW v \in 0 .. 99
    PROVE  FromBcd(v) \in Byte
BY DEF FromBcd, Byte

LEMMA MachineWritesBytes ==
    ASSUME NEW r \in Reg, NEW v \in Byte
    PROVE  (IF IsHour(r) THEN HourFromMachine(v) ELSE FromMachine(r, v)) \in Byte
<1>1. HourFromMachine(v) \in Byte
  <2>1. \A n \in Int : Clamp(0, n, 23) \in Byte
    BY DEF Clamp, Byte
  <2>2. \A n \in 0 .. 255 : FromBcd(n) \in Int
    BY DEF FromBcd
  <2>3. v % 32 \in 0 .. 255 /\ v % 64 \in 0 .. 255 /\ v % 16 \in 0 .. 255
    BY DEF Byte
  <2> QED
    BY <2>1, <2>2, <2>3 DEF HourFromMachine
<1>2. minVals[r] \in {0, 1} /\ maxVals[r] \in {59, 23, 7, 31, 12, 99}
  BY DEF minVals, maxVals, Reg, TimeReg, AlarmReg
<1>3. Clamp(minVals[r], v, maxVals[r]) \in 0 .. 99
  BY <1>2 DEF Clamp, Byte
<1>4. FromMachine(r, v) \in Byte
  <2> DEFINE c == Clamp(minVals[r], v, maxVals[r])
  <2>1. c \in Byte
    BY <1>3 DEF Byte
  <2>2. FromBcd(c) \in Byte
    BY <1>3, FromBcdIsByte
  <2>3. FromMachine(r, v) = IF "DM" \in ctrlB THEN c ELSE FromBcd(c)
    BY DEF FromMachine
  <2> HIDE DEF c
  <2> QED
    BY <2>1, <2>2, <2>3
<1> QED
  BY <1>1, <1>4

LEMMA IncIsByte == \A v \in Byte : Inc(v) \in Byte
BY DEF Inc, Byte

LEMMA AdvanceIsTime ==
    ASSUME NEW t \in [Reg -> Byte], NEW days
    PROVE  Advance(t, days) \in [Reg -> Byte]
<1>1. /\ t.sec \in Byte /\ t.min \in Byte /\ t.hr \in Byte /\ t.day \in Byte
      /\ t.date \in Byte /\ t.month \in Byte /\ t.year \in Byte
  BY DEF Reg, TimeReg
<1>2. 0 \in Byte /\ 1 \in Byte
  BY DEF Byte
<1>3. /\ Inc(t.sec) \in Byte /\ Inc(t.min) \in Byte /\ Inc(t.hr) \in Byte
      /\ Inc(t.day) \in Byte /\ Inc(t.date) \in Byte /\ Inc(t.month) \in Byte
      /\ Inc(t.year) \in Byte
  BY <1>1, IncIsByte
<1> QED
  BY <1>1, <1>2, <1>3 DEF Advance

(* Whatever bytes the machine writes, in whatever format, a register of    *)
(* the time is left with a byte: what a clamp lets through fits after its  *)
(* conversion (ds1287.c:53-110).                                           *)
THEOREM TimesAreBytes == ClockSpec => []TimesInv
<1>1. ClockInit => TimesInv
  BY DEF ClockInit, TimesInv, Byte
<1>2. TimesInv /\ [ClockNext]_clockVars => TimesInv'
  <2> SUFFICES ASSUME TimesInv, [ClockNext]_clockVars PROVE TimesInv'
    OBVIOUS
  <2>1. CASE ds1287step
    <3>1. gRTC' = gRTC \/ \E days : gRTC' = Advance(gRTC, days)
      BY <2>1, Zenon DEF ds1287step
    <3> QED
      BY <3>1, AdvanceIsTime DEF TimesInv
  <2>2. ASSUME NEW r \in Written, NEW v \in Bytes, WriteTime(r, v)
        PROVE  TimesInv'
    <3>1. r \in Reg /\ v \in Byte
      BY DS1287Assumption
    <3> QED
      BY <2>2, <3>1, MachineWritesBytes DEF WriteTime, TimesInv
  <2>3. CASE ReadC
    BY <2>3 DEF ReadC, TimesInv
  <2>4. ASSUME NEW p \in Periods, WriteA(p)
        PROVE  TimesInv'
    BY <2>4 DEF WriteA, TimesInv
  <2>5. ASSUME NEW word \in CtrlBWords, WriteB(word)
        PROVE  TimesInv'
    BY <2>5 DEF WriteB, TimesInv
  <2>6. CASE UNCHANGED clockVars
    BY <2>6 DEF clockVars, TimesInv
  <2> QED
    BY <2>1, <2>2, <2>3, <2>4, <2>5, <2>6 DEF ClockNext
<1> QED
  BY <1>1, <1>2, PTL DEF ClockSpec
-----------------------------------------------------------------------------
(* A byte in the selected format comes back from the register it went to.  *)
LEMMA BinaryComesBack ==
    ASSUME NEW r \in Reg, NEW v \in Byte, ~ IsHour(r), "DM" \in ctrlB,
           InFormat(r, v)
    PROVE  ToMachine(FromMachine(r, v)) = v
<1>1. v \in minVals[r] .. maxVals[r]
  BY DEF InFormat
<1>2. minVals[r] \in Int /\ maxVals[r] \in Int
  BY DEF minVals, maxVals, Reg, TimeReg, AlarmReg
<1> QED
  BY <1>1, <1>2 DEF FromMachine, ToMachine, Clamp

LEMMA HourComesBack ==
    ASSUME NEW r \in Reg, NEW v \in Byte, IsHour(r),
           "DM" \in ctrlB \/ "24" \notin ctrlB,
           InFormat(r, v)
    PROVE  HourToMachine(HourFromMachine(v)) = v
<1>1. CASE "DM" \in ctrlB /\ "24" \in ctrlB
  <2>1. minVals[r] = 0 /\ maxVals[r] = 23
    BY DEF minVals, maxVals, Reg, TimeReg, AlarmReg, IsHour
  <2>2. v \in 0 .. 23
    BY <1>1, <2>1 DEF InFormat
  <2>3. HourFromMachine(v) = v
    BY <1>1, <2>2 DEF HourFromMachine, Clamp
  <2> QED
    BY <1>1, <2>3 DEF HourToMachine
<1>2. CASE "DM" \in ctrlB /\ "24" \notin ctrlB
  <2> DEFINE pm == IF v >= 128 THEN 12 ELSE 0
  <2>1. v % 128 \in 1 .. 12
    BY <1>2 DEF InFormat
  <2>2. v \in 1 .. 12 \/ v \in 129 .. 140
    BY <2>1 DEF Byte
  <2>3. HourFromMachine(v) = (v % 16) + pm - 1
    BY <1>2, <2>2 DEF HourFromMachine, Clamp
  <2> QED
    BY <1>2, <2>2, <2>3 DEF HourToMachine
<1>3. CASE "DM" \notin ctrlB /\ "24" \notin ctrlB
  <2> DEFINE pm == IF v >= 128 THEN 12 ELSE 0
  <2>1. Digits(v % 128) /\ FromBcd(v % 128) \in 1 .. 12
    BY <1>3 DEF InFormat
  <2>2. v % 128 \in (1 .. 9) \cup {16, 17, 18}
    BY <2>1 DEF Digits, FromBcd, Byte
  <2>3. v % 32 = v % 128 /\ FromBcd(v % 32) = FromBcd(v % 128)
    BY <2>2 DEF Byte
  <2>4. HourFromMachine(v) = FromBcd(v % 128) + pm - 1
    BY <1>3, <2>1, <2>3 DEF HourFromMachine, Clamp
  <2>5. ToBcd(FromBcd(v % 128)) = v % 128
    BY <2>2 DEF ToBcd, FromBcd
  <2>6. (HourFromMachine(v) % 12) + 1 = FromBcd(v % 128)
    BY <2>1, <2>4
  <2>7. HourFromMachine(v) >= 12 <=> v >= 128
    BY <2>1, <2>4 DEF Byte
  <2>8. HourToMachine(HourFromMachine(v)) =
           (IF v >= 128 THEN 128 ELSE 0) + (v % 128)
    BY <1>3, <2>5, <2>6, <2>7 DEF HourToMachine
  <2> QED
    BY <2>8 DEF Byte
<1> QED
  BY <1>1, <1>2, <1>3

(* "internally our data is always binary. we change format on read/write"  *)
(* (ds1287.c:38) is true in binary, and for hours in twelve hour mode:     *)
(* what is written in the selected format is what is read back.            *)
THEOREM BinaryReadsBack == ClockSpec => []RoundTripBinary
<1>1. ClockInit => RoundTripBinary
  BY DEF ClockInit, RoundTripBinary, WroteInFormat, Nothing
<1>2. TimesInv /\ RoundTripBinary /\ [ClockNext]_clockVars => RoundTripBinary'
  <2> SUFFICES ASSUME TimesInv, RoundTripBinary, [ClockNext]_clockVars
               PROVE  RoundTripBinary'
    OBVIOUS
  <2>1. CASE ds1287step \/ ReadC \/ (\E p \in Periods : WriteA(p))
                        \/ (\E word \in CtrlBWords : WriteB(word))
    <3>1. shown' = Nothing
      BY <2>1, Zenon DEF ds1287step, ReadC, WriteA, WriteB
    <3> QED
      BY <3>1 DEF RoundTripBinary, WroteInFormat, Nothing
  <2>2. ASSUME NEW r \in Written, NEW v \in Bytes, WriteTime(r, v)
        PROVE  RoundTripBinary'
    <3>1. r \in Reg /\ v \in Byte
      BY DS1287Assumption
    <3>2. /\ shown' = [kind |-> "wrote", reg |-> r, val |-> v]
          /\ gRTC'[r] = IF IsHour(r) THEN HourFromMachine(v) ELSE FromMachine(r, v)
          /\ ctrlB' = ctrlB
      BY <2>2, <3>1 DEF WriteTime, TimesInv
    <3> SUFFICES ASSUME "DM" \in ctrlB \/ (IsHour(r) /\ "24" \notin ctrlB),
                        InFormat(r, v)
                 PROVE  (IF IsHour(r) THEN HourToMachine(gRTC'[r])
                                      ELSE ToMachine(gRTC'[r])) = v
      BY <3>2 DEF RoundTripBinary, WroteInFormat, ReadsBack, TwelveHours, Value,
                  InFormat, HourToMachine, ToMachine
    <3> QED
      BY <3>1, <3>2, BinaryComesBack, HourComesBack
  <2>3. CASE UNCHANGED clockVars
    BY <2>3 DEF clockVars, RoundTripBinary, WroteInFormat, ReadsBack, TwelveHours,
                Value, InFormat, HourToMachine, ToMachine
  <2> QED
    BY <2>1, <2>2, <2>3 DEF ClockNext
<1> QED
  BY <1>1, <1>2, TimesAreBytes, PTL DEF ClockSpec

(* The digits of a number in BCD come back. *)
LEMMA DigitsComeBack ==
    ASSUME NEW v \in Byte, Digits(v)
    PROVE  /\ FromBcd(v) \in 0 .. 99 /\ FromBcd(v) <= v
           /\ ToBcd(FromBcd(v)) = v /\ v <= 153
<1> DEFINE h == v \div 16
           l == v % 16
<1>1. h \in 0 .. 9 /\ l \in 0 .. 9 /\ v = 16 * h + l
  BY DEF Digits, Byte
<1>2. FromBcd(v) = h * 10 + l
  BY DEF FromBcd
<1> HIDE DEF h, l
<1>3. (h * 10 + l) \div 10 = h /\ (h * 10 + l) % 10 = l
  BY <1>1
<1> QED
  BY <1>1, <1>2, <1>3 DEF ToBcd

LEMMA BcdComesBack ==
    ASSUME NEW r \in Reg, NEW v \in Byte, ~ IsHour(r), "DM" \notin ctrlB,
           InFormat(r, v)
    PROVE  ToMachine(FromMachine(r, v)) = v <=> BcdReads(r, v)
<1> DEFINE low == minVals[r]
           high == maxVals[r]
<1>1. Digits(v) /\ FromBcd(v) \in low .. high
  BY DEF InFormat
<1>2. FromBcd(v) \in 0 .. 99 /\ FromBcd(v) <= v /\ ToBcd(FromBcd(v)) = v /\ v <= 153
  BY <1>1, DigitsComeBack
<1>3. low \in 0 .. 1 /\ high \in {7, 12, 31, 59, 99}
  BY DEF minVals, maxVals, Reg, TimeReg, AlarmReg, IsHour
<1>4. FromMachine(r, v) = FromBcd(IF v > high THEN high ELSE v)
  <2> DEFINE n == FromBcd(v)
  <2>1. n \in Int /\ n <= v /\ low <= n /\ low \in Int /\ v \in Int
    BY <1>1, <1>2, <1>3 DEF Byte
  <2>2. ~ (v < low)
    <3> HIDE DEF n, low
    <3> QED
      BY <2>1
  <2> QED
    BY <2>2 DEF FromMachine, Clamp
<1>5. CASE v <= high
  <2>1. FromMachine(r, v) = FromBcd(v)
    BY <1>3, <1>4, <1>5 DEF Byte
  <2>2. ToMachine(FromMachine(r, v)) = v
    BY <1>2, <2>1 DEF ToMachine, Byte
  <2> QED
    BY <1>5, <2>2 DEF BcdReads
<1>6. CASE v > high
  <2>1. ToBcd(FromBcd(high)) \in 0 .. 255
    <3>1. /\ 7 \div 16 = 0 /\ 7 % 16 = 7
          /\ 12 \div 16 = 0 /\ 12 % 16 = 12
      OBVIOUS
    <3>2. /\ 31 \div 16 = 1 /\ 31 % 16 = 15
          /\ 59 \div 16 = 3 /\ 59 % 16 = 11
          /\ 99 \div 16 = 6 /\ 99 % 16 = 3
      OBVIOUS
    <3>3. FromBcd(high) \in {7, 12, 25, 41, 63}
      BY <1>3, <3>1, <3>2 DEF FromBcd
    <3> HIDE DEF high
    <3> QED
      BY <3>3 DEF ToBcd
  <2>2. ToMachine(FromMachine(r, v)) = ToBcd(FromBcd(high))
    BY <1>4, <1>6, <2>1 DEF ToMachine
  <2> QED
    BY <1>3, <1>6, <2>2 DEF BcdReads, Byte
<1> QED
  BY <1>3, <1>5, <1>6 DEF Byte

LEMMA BcdHourComesBack ==
    ASSUME NEW r \in Reg, NEW v \in Byte, IsHour(r), "DM" \notin ctrlB,
           "24" \in ctrlB, InFormat(r, v)
    PROVE  HourToMachine(HourFromMachine(v)) = v <=> BcdReads(r, v)
<1>1. Digits(v) /\ FromBcd(v) \in 0 .. 23
  BY DEF InFormat, minVals, maxVals, Reg, TimeReg, AlarmReg, IsHour
<1>2. v \in 0 .. 9 \/ v \in 16 .. 25 \/ v \in 32 .. 35
  BY <1>1 DEF Digits, FromBcd, Byte
<1>3. v % 64 = v
  BY <1>2
<1>4. HourFromMachine(v) = Clamp(0, FromBcd(v) - 1, 23)
  BY <1>3 DEF HourFromMachine
<1>5. HourFromMachine(v) = IF v = 0 THEN 0 ELSE FromBcd(v) - 1
  <2>1. FromBcd(v) = 0 <=> v = 0
    BY <1>2 DEF FromBcd
  <2> QED
    BY <1>1, <1>4, <2>1 DEF Clamp
<1>6. HourToMachine(HourFromMachine(v)) = ToBcd(HourFromMachine(v))
  BY DEF HourToMachine
<1>7. v # 0 => ToBcd(FromBcd(v) - 1) # v
  <2>1. CASE v \in 1 .. 9
    BY <2>1 DEF FromBcd, ToBcd
  <2>2. CASE v \in 16 .. 25
    BY <2>2 DEF FromBcd, ToBcd
  <2>3. CASE v \in 32 .. 35
    BY <2>3 DEF FromBcd, ToBcd
  <2> QED
    BY <1>2, <2>1, <2>2, <2>3
<1>8. ToBcd(0) = 0
  BY DEF ToBcd
<1> QED
  BY <1>5, <1>6, <1>7, <1>8 DEF BcdReads

(* In BCD (ds1287.c:38-90) an hour of a day reads back only when it is     *)
(* zero; any other value in the format only when as a byte it is within    *)
(* the limit for binary values, or is what that limit reads as.            *)
THEOREM BcdReadsBack == ClockSpec => []RoundTripBcd
<1>1. ClockInit => RoundTripBcd
  BY DEF ClockInit, RoundTripBcd, WroteInFormat, Nothing
<1>2. TimesInv /\ RoundTripBcd /\ [ClockNext]_clockVars => RoundTripBcd'
  <2> SUFFICES ASSUME TimesInv, RoundTripBcd, [ClockNext]_clockVars
               PROVE  RoundTripBcd'
    OBVIOUS
  <2>1. CASE ds1287step \/ ReadC \/ (\E p \in Periods : WriteA(p))
                        \/ (\E word \in CtrlBWords : WriteB(word))
    <3>1. shown' = Nothing
      BY <2>1, Zenon DEF ds1287step, ReadC, WriteA, WriteB
    <3> QED
      BY <3>1 DEF RoundTripBcd, WroteInFormat, Nothing
  <2>2. ASSUME NEW r \in Written, NEW v \in Bytes, WriteTime(r, v)
        PROVE  RoundTripBcd'
    <3>1. r \in Reg /\ v \in Byte
      BY DS1287Assumption
    <3>2. /\ shown' = [kind |-> "wrote", reg |-> r, val |-> v]
          /\ gRTC'[r] = IF IsHour(r) THEN HourFromMachine(v) ELSE FromMachine(r, v)
          /\ ctrlB' = ctrlB
      BY <2>2, <3>1 DEF WriteTime, TimesInv
    <3> SUFFICES ASSUME "DM" \notin ctrlB, ~ (IsHour(r) /\ "24" \notin ctrlB),
                        InFormat(r, v)
                 PROVE  (IF IsHour(r) THEN HourToMachine(gRTC'[r])
                                      ELSE ToMachine(gRTC'[r])) = v <=> BcdReads(r, v)
      BY <3>2 DEF RoundTripBcd, WroteInFormat, ReadsBack, TwelveHours, Value,
                  InFormat, HourToMachine, ToMachine
    <3> QED
      BY <3>1, <3>2, BcdComesBack, BcdHourComesBack
  <2>3. CASE UNCHANGED clockVars
    BY <2>3 DEF clockVars, RoundTripBcd, WroteInFormat, ReadsBack, TwelveHours,
                Value, InFormat, HourToMachine, ToMachine
  <2> QED
    BY <2>1, <2>2, <2>3 DEF ClockNext
<1> QED
  BY <1>1, <1>2, TimesAreBytes, PTL DEF ClockSpec

(* What reads back and what does not (ds1287.c:59-90), in every format.    *)
THEOREM TimesReadBack == ClockSpec => []RoundTrip
<1>1. (RoundTripBinary /\ RoundTripBcd) => RoundTrip
  BY DEF RoundTrip
<1> QED
  BY <1>1, BinaryReadsBack, BcdReadsBack, PTL
-----------------------------------------------------------------------------
(* Numbers, for the table of years. *)
LEMMA Least ==
    ASSUME NEW T, T \subseteq Nat, T # {}
    PROVE  \E x \in T : \A y \in T : x <= y
<1> DEFINE R == OpToRel(<, Nat)
<1>1. IsWellFoundedOn(R, Nat)
  BY NatLessThanWellFounded
<1>2. ASSUME NEW x \in Nat, NEW y \in Nat, y < x
      PROVE  <<y, x>> \in R
  <2>1. <<y, x>> \in Nat \X Nat /\ <<y, x>>[1] < <<y, x>>[2]
    BY <1>2
  <2> QED
    BY <2>1 DEF OpToRel
<1> HIDE DEF R
<1>3. PICK x \in T : \A y \in T : ~ (<<y, x>> \in R)
  BY <1>1, WFMin
<1>4. ASSUME NEW y \in T PROVE x <= y
  <2>1. x \in Nat /\ y \in Nat
    OBVIOUS
  <2>2. ~ (y < x)
    BY <1>2, <1>3, <2>1
  <2> QED BY <2>1, <2>2
<1> QED
  BY <1>4

(* A set of numbers that holds 0 and the successor of each it holds.       *)
LEMMA Counting ==
    ASSUME NEW T, 0 \in T, \A n \in Nat : n \in T => n + 1 \in T
    PROVE  Nat \subseteq T
<1> SUFFICES ASSUME Nat \ T # {} PROVE FALSE
  OBVIOUS
<1>1. PICK x \in Nat \ T : \A y \in Nat \ T : x <= y
  BY Least
<1>2. x # 0 /\ x - 1 \in Nat /\ (x - 1) + 1 = x
  OBVIOUS
<1>3. x - 1 \in T
  BY <1>1, <1>2
<1> QED
  BY <1>2, <1>3

(* f holds the first n sums of a series. *)
Sums(f, d, n) == f = [y \in 0 .. n |-> IF y = 0 THEN 0 ELSE f[y - 1] + d[y - 1]]

LEMMA OneLonger ==
    ASSUME NEW n \in Nat, NEW f \in [0 .. n -> Nat], NEW x \in Nat
    PROVE  [y \in 0 .. n + 1 |-> IF y \in 0 .. n THEN f[y] ELSE x] \in [0 .. n + 1 -> Nat]
OBVIOUS

LEMMA SumsExist ==
    ASSUME NEW d \in [Nat -> Nat], NEW N \in Nat
    PROVE  \E f \in [0 .. N -> Nat] : Sums(f, d, N)
<1> DEFINE T == {n \in Nat : \E f \in [0 .. n -> Nat] : Sums(f, d, n)}
<1>1. 0 \in T
  <2> DEFINE f == [y \in 0 .. 0 |-> 0]
  <2>1. f \in [0 .. 0 -> Nat] /\ Sums(f, d, 0)
    BY DEF Sums
  <2> QED
    BY <2>1
<1>2. ASSUME NEW n \in Nat, n \in T PROVE n + 1 \in T
  <2>1. PICK f \in [0 .. n -> Nat] : Sums(f, d, n)
    BY <1>2
  <2> DEFINE g == [y \in 0 .. n + 1 |-> IF y \in 0 .. n THEN f[y] ELSE f[n] + d[n]]
  <2>2. g \in [0 .. n + 1 -> Nat]
    <3>1. f[n] + d[n] \in Nat
      <4>1. n \in 0 .. n /\ d[n] \in Nat
        OBVIOUS
      <4>2. f[n] \in Nat
        BY <4>1, Zenon
      <4>3. \A x, y \in Nat : x + y \in Nat
        OBVIOUS
      <4> QED
        BY <4>1, <4>2, <4>3, Zenon
    <3> QED
      BY <3>1, OneLonger
  <2>3. ASSUME NEW y \in 0 .. n + 1
        PROVE  g[y] = IF y = 0 THEN 0 ELSE g[y - 1] + d[y - 1]
    <3>1. CASE y \in 0 .. n
      <4>1. f[y] = IF y = 0 THEN 0 ELSE f[y - 1] + d[y - 1]
        BY <2>1, <3>1 DEF Sums
      <4>2. y # 0 => y - 1 \in 0 .. n /\ y - 1 \in 0 .. n + 1
        BY <3>1
      <4> QED
        BY <3>1, <4>1, <4>2
    <3>2. CASE y = n + 1
      BY <3>2
    <3> QED
      BY <3>1, <3>2
  <2>4. Sums(g, d, n + 1)
    <3>1. g = [y \in 0 .. n + 1 |-> g[y]]
      OBVIOUS
    <3> HIDE DEF g
    <3> QED
      BY <2>3, <3>1 DEF Sums
  <2> HIDE DEF g
  <2>5. n + 1 \in Nat
    OBVIOUS
  <2> QED
    BY <2>2, <2>4, <2>5, Zenon
<1> HIDE DEF T
<1>3. Nat \subseteq T
  BY <1>1, <1>2, Counting
<1> QED
  BY <1>3 DEF T
-----------------------------------------------------------------------------
(* The calendar: the days of the years and the months add up. *)
DaysOf(y) == IF LeapYear(y) THEN 366 ELSE 365

LEMMA YearsAddUp ==
    /\ YearStart \in [0 .. YearsPerCentury -> Nat]
    /\ YearStart[0] = 0
    /\ \A y \in 0 .. YearsPerCentury - 1 : YearStart[y + 1] = YearStart[y] + DaysOf(y)
<1> DEFINE N == YearsPerCentury
           d == [y \in Nat |-> DaysOf(y)]
           Starts(f) == f = [y \in 0 .. N |->
                               IF y = 0 THEN 0 ELSE f[y - 1] + DaysOf(y - 1)]
<1>1. N \in Nat /\ N >= 1
  BY DS1287Assumption
<1>2. d \in [Nat -> Nat]
  BY DEF DaysOf
<1>3. YearStart = CHOOSE f : Starts(f)
  BY DEF YearStart, DaysOf
<1>4. \E f : Starts(f)
  <2> HIDE DEF d
  <2>1. PICK f \in [0 .. N -> Nat] : Sums(f, d, N)
    BY <1>1, <1>2, SumsExist
  <2>2. ASSUME NEW y \in 0 .. N, y # 0 PROVE d[y - 1] = DaysOf(y - 1)
    BY <1>1, <2>2 DEF d
  <2>3. Starts(f)
    BY <2>1, <2>2 DEF Sums
  <2> QED
    BY <2>3
<1>5. Starts(YearStart)
  BY <1>3, <1>4
<1> DEFINE s == YearStart
<1>6. s[0] = 0 /\ \A y \in 1 .. N : s[y] = s[y - 1] + DaysOf(y - 1)
  <2>1. \A y \in 0 .. N : s[y] = IF y = 0 THEN 0 ELSE s[y - 1] + DaysOf(y - 1)
    BY <1>5
  <2> QED
    BY <1>1, <2>1
<1> HIDE DEF s
<1>7. \A y \in 0 .. N - 1 : s[y + 1] = s[y] + DaysOf(y)
  <2> SUFFICES ASSUME NEW y \in 0 .. N - 1 PROVE s[y + 1] = s[y] + DaysOf(y)
    OBVIOUS
  <2>1. y + 1 \in 1 .. N /\ (y + 1) - 1 = y
    BY <1>1
  <2> QED
    BY <1>6, <2>1
<1>8. \A y \in 0 .. N : s[y] \in Nat
  <2> DEFINE T == {n \in Nat : n <= N => s[n] \in Nat}
  <2>1. 0 \in T
    BY <1>6
  <2>2. ASSUME NEW n \in Nat, n \in T PROVE n + 1 \in T
    <3> SUFFICES ASSUME n + 1 <= N PROVE s[n + 1] \in Nat
      OBVIOUS
    <3>1. n \in 0 .. N - 1 /\ n <= N
      BY <1>1
    <3>2. s[n] \in Nat /\ DaysOf(n) \in Nat
      BY <2>2, <3>1 DEF DaysOf
    <3>3. s[n + 1] = s[n] + DaysOf(n)
      BY <1>7, <3>1
    <3> QED
      BY <3>2, <3>3
  <2> HIDE DEF T
  <2>3. Nat \subseteq T
    BY <2>1, <2>2, Counting
  <2> QED
    BY <1>1, <2>3 DEF T
<1>9. s = [y \in 0 .. N |-> s[y]]
  BY <1>5 DEF s
<1>10. s \in [0 .. N -> Nat]
  BY <1>8, <1>9
<1> QED
  BY <1>6, <1>7, <1>10 DEF s

(* No year ends after the century. *)
LEMMA YearsEndInCentury ==
    \A y \in 0 .. YearsPerCentury - 1 : YearStart[y] + DaysOf(y) <= YearStart[YearsPerCentury]
<1> DEFINE N == YearsPerCentury
           T == {k \in Nat : k < N => YearStart[N - k] <= YearStart[N]}
<1>0. N \in Nat /\ N >= 1
  BY DS1287Assumption
<1>1. 0 \in T
  BY <1>0, YearsAddUp
<1>2. ASSUME NEW k \in Nat, k \in T PROVE k + 1 \in T
  <2> SUFFICES ASSUME k + 1 < N PROVE YearStart[N - (k + 1)] <= YearStart[N]
    OBVIOUS
  <2> DEFINE y == N - (k + 1)
  <2>1. y \in 0 .. N - 1 /\ y + 1 = N - k /\ N - k \in 0 .. N /\ N \in 0 .. N
    BY <1>0
  <2>2. YearStart[N - k] = YearStart[y] + DaysOf(y)
    BY <2>1, YearsAddUp
  <2>3. YearStart[N - k] <= YearStart[N]
    BY <1>0, <1>2
  <2>4. YearStart[y] \in Nat /\ YearStart[N - k] \in Nat /\ YearStart[N] \in Nat
    BY <2>1, YearsAddUp
  <2> HIDE DEF y
  <2>5. YearStart[y] <= YearStart[N]
    BY <2>2, <2>3, <2>4 DEF DaysOf
  <2> QED
    BY <2>5 DEF y
<1> HIDE DEF T
<1>3. Nat \subseteq T
  BY <1>1, <1>2, Counting
<1>4. ASSUME NEW y \in 0 .. N - 1
      PROVE  YearStart[y] + DaysOf(y) <= YearStart[N]
  <2> DEFINE k == N - (y + 1)
  <2>1. k \in Nat /\ k < N /\ N - k = y + 1
    BY <1>0
  <2>2. k \in T
    BY <1>3, <2>1
  <2>3. YearStart[N - k] <= YearStart[N]
    BY <2>1, <2>2 DEF T
  <2> QED
    BY <2>1, <2>3, YearsAddUp
<1> QED
  BY <1>4

(* The days of the year before a month. *)
Before(m, y) ==
    <<0, 31, 59, 90, 120, 151, 181, 212, 243, 273, 304, 334>>[m]
      + (IF m > 2 /\ LeapYear(y) THEN 1 ELSE 0)

LEMMA BeforeAddsUp ==
    ASSUME NEW y
    PROVE  /\ Before(1, y) = 0
           /\ \A m \in 1 .. 12 : Before(m, y) \in Nat
           /\ \A m \in 2 .. 12 : Before(m, y) = Before(m - 1, y) + MonthLength(m - 1, y)
           /\ Before(12, y) + MonthLength(12, y) = DaysOf(y)
           /\ \A m \in 1 .. 12 : Before(m, y) + MonthLength(m, y) <= DaysOf(y)
<1>1. CASE LeapYear(y)
  BY <1>1 DEF Before, MonthLength, DaysOf
<1>2. CASE ~ LeapYear(y)
  BY <1>2 DEF Before, MonthLength, DaysOf
<1> QED
  BY <1>1, <1>2

LEMMA MonthsAddUp ==
    \A m \in 1 .. 12, y \in 0 .. YearsPerCentury - 1 : MonthStart[m][y] = Before(m, y)
<1> DEFINE Years == 0 .. YearsPerCentury - 1
           Starts(f) == f = [m \in 1 .. 12 |-> [y \in Years |->
                               IF m = 1 THEN 0 ELSE f[m - 1][y] + MonthLength(m - 1, y)]]
<1>1. MonthStart = CHOOSE f : Starts(f)
  BY DEF MonthStart
<1>2. \E f : Starts(f)
  <2> DEFINE f == [m \in 1 .. 12 |-> [y \in Years |-> Before(m, y)]]
  <2>1. ASSUME NEW m \in 1 .. 12, NEW y \in Years
        PROVE  f[m][y] = IF m = 1 THEN 0 ELSE f[m - 1][y] + MonthLength(m - 1, y)
    <3>1. CASE m = 1
      BY <3>1, BeforeAddsUp
    <3>2. CASE m # 1
      <4>1. m \in 2 .. 12 /\ m - 1 \in 1 .. 12
        BY <3>2
      <4> QED
        BY <3>2, <4>1, BeforeAddsUp
    <3> QED
      BY <3>1, <3>2
  <2>2. f = [m \in 1 .. 12 |-> [y \in Years |-> f[m][y]]]
    OBVIOUS
  <2> HIDE DEF f
  <2>3. Starts(f)
    BY <2>1, <2>2
  <2> QED
    BY <2>3
<1>3. Starts(MonthStart)
  BY <1>1, <1>2
<1> DEFINE s == MonthStart
<1>4. \A m \in 1 .. 12, y \in Years :
         s[m][y] = IF m = 1 THEN 0 ELSE s[m - 1][y] + MonthLength(m - 1, y)
  <2> TAKE m \in 1 .. 12, y \in Years
  <2>1. s[m] = [x \in Years |-> IF m = 1 THEN 0 ELSE s[m - 1][x] + MonthLength(m - 1, x)]
    BY <1>3
  <2> HIDE DEF s, Years
  <2> QED
    BY <2>1
<1> HIDE DEF s
<1> SUFFICES ASSUME NEW y \in Years PROVE \A m \in 1 .. 12 : s[m][y] = Before(m, y)
  BY DEF s
<1> DEFINE T == {n \in Nat : n + 1 \in 1 .. 12 => s[n + 1][y] = Before(n + 1, y)}
<1>5. 0 \in T
  BY <1>4, BeforeAddsUp
<1>6. ASSUME NEW n \in Nat, n \in T PROVE n + 1 \in T
  <2> SUFFICES ASSUME n + 2 \in 1 .. 12 PROVE s[n + 2][y] = Before(n + 2, y)
    OBVIOUS
  <2>1. n + 1 \in 1 .. 12 /\ n + 2 \in 2 .. 12 /\ n + 2 # 1 /\ (n + 2) - 1 = n + 1
    OBVIOUS
  <2>2. s[n + 2][y] = s[n + 1][y] + MonthLength(n + 1, y)
    BY <1>4, <2>1
  <2>3. Before(n + 2, y) = Before(n + 1, y) + MonthLength(n + 1, y)
    BY <2>1, BeforeAddsUp
  <2> QED
    BY <1>6, <2>1, <2>2, <2>3
<1> HIDE DEF T
<1>7. Nat \subseteq T
  BY <1>5, <1>6, Counting
<1>8. ASSUME NEW m \in 1 .. 12 PROVE s[m][y] = Before(m, y)
  <2>1. m - 1 \in Nat /\ (m - 1) + 1 = m
    OBVIOUS
  <2>2. m - 1 \in T
    BY <1>7, <2>1
  <2> QED
    BY <2>1, <2>2 DEF T
<1> QED
  BY <1>8
-----------------------------------------------------------------------------
(* What an update carries into. *)
MinuteOver(t) == t.sec + 1 = SecondsPerMinute
HourOver(t) == MinuteOver(t) /\ t.min + 1 = MinutesPerHour
DayOver(t) == HourOver(t) /\ t.hr + 1 = HoursPerDay
MonthIsOver(t) == DayOver(t) /\ t.date = MonthLength(t.month, t.year)
YearOver(t) == MonthIsOver(t) /\ t.month = 12

Tomorrow(t) == Advance(t, DaysIn(t.month, t.year))

(* The code is not at one of the ends of days that it misses. *)
Counted(t) == ~ LeapMissed(t) /\ ~ CenturyMissed(t)

(* The registers of a moment of the calendar, as numbers. *)
LEMMA ValidFields ==
    ASSUME NEW t \in [Reg -> Byte], Valid(t)
    PROVE  /\ t.sec \in 0 .. SecondsPerMinute - 1
           /\ t.min \in 0 .. MinutesPerHour - 1
           /\ t.hr \in 0 .. HoursPerDay - 1
           /\ t.day \in 1 .. 7
           /\ t.month \in 1 .. 12
           /\ t.year \in 0 .. YearsPerCentury - 1
           /\ MonthLength(t.month, t.year) \in 28 .. 31
           /\ t.date \in 1 .. MonthLength(t.month, t.year)
<1>1. /\ t.sec \in Byte /\ t.min \in Byte /\ t.hr \in Byte /\ t.year \in Byte
  BY DEF Reg, TimeReg
<1>2. MonthLength(t.month, t.year) \in 28 .. 31
  <2>1. t.month \in 1 .. 12
    BY DEF Valid
  <2> QED
    BY <2>1 DEF MonthLength
<1>3. /\ SecondsPerMinute \in Nat /\ MinutesPerHour \in Nat /\ HoursPerDay \in Nat
      /\ YearsPerCentury \in Nat
  BY DS1287Assumption
<1>4. /\ t.sec < SecondsPerMinute /\ t.min < MinutesPerHour /\ t.hr < HoursPerDay
      /\ t.year < YearsPerCentury
      /\ t.day \in 1 .. 7 /\ t.month \in 1 .. 12
      /\ t.date \in 1 .. MonthLength(t.month, t.year)
  BY DEF Valid
<1>5. /\ t.sec \in 0 .. SecondsPerMinute - 1 /\ t.min \in 0 .. MinutesPerHour - 1
      /\ t.hr \in 0 .. HoursPerDay - 1 /\ t.year \in 0 .. YearsPerCentury - 1
  <2>1. ASSUME NEW x \in Byte, NEW n \in Nat, x < n
        PROVE  x \in 0 .. n - 1
    BY <2>1 DEF Byte
  <2>2. t.sec \in 0 .. SecondsPerMinute - 1
    BY <1>1, <1>3, <1>4, <2>1
  <2>3. t.min \in 0 .. MinutesPerHour - 1
    BY <1>1, <1>3, <1>4, <2>1
  <2>4. t.hr \in 0 .. HoursPerDay - 1
    BY <1>1, <1>3, <1>4, <2>1
  <2>5. t.year \in 0 .. YearsPerCentury - 1
    BY <1>1, <1>3, <1>4, <2>1
  <2> QED
    BY <2>2, <2>3, <2>4, <2>5
<1> QED
  BY <1>2, <1>4, <1>5

(* The two rules agree on every year that is a multiple of three and of    *)
(* four, or of neither.                                                     *)
LEMMA RulesAgree ==
    ASSUME NEW year \in 0 .. 99, ~ MisjudgedYear(year)
    PROVE  isLeap(year) <=> LeapYear(year)
<1> DEFINE y == 1900 + year
           P == y % 100 # 0 \/ y % 400 = 0
<1>1. /\ isLeap(year) <=> y % 3 = 0 /\ P
      /\ LeapYear(year) <=> y % 4 = 0 /\ P
  BY DEF isLeap, LeapYear
<1>2. CASE year = 0
  BY <1>1, <1>2
<1>3. CASE year # 0
  <2>1. y \in Nat /\ y % 12 \notin {3, 4, 6, 8, 9}
    BY <1>3 DEF MisjudgedYear
  <2> HIDE DEF y
  <2>2. y % 3 = 0 <=> y % 4 = 0
    BY <2>1
  <2> QED
    BY <1>1, <2>2
<1> QED
  BY <1>2, <1>3

(* Where the code does not miss the end of a month, its table gives it. *)
LEMMA TableAgrees ==
    ASSUME NEW t \in [Reg -> Byte], Valid(t), Counted(t), DayOver(t)
    PROVE  t.date = DaysIn(t.month, t.year) <=> t.date = MonthLength(t.month, t.year)
<1>1. CASE t.month # 2
  <2>1. t.month \in 1 .. 12
    BY ValidFields
  <2> QED
    BY <1>1, <2>1 DEF DaysIn, MonthLength
<1>2. CASE t.month = 2 /\ MisjudgedYear(t.year)
  <2>1. t.date \notin {28, 29}
    BY <1>2 DEF Counted, LeapMissed, LastSecond, DayOver, HourOver, MinuteOver
  <2>2. DaysIn(2, t.year) \in {28, 29} /\ MonthLength(2, t.year) \in {28, 29}
    BY DEF DaysIn, MonthLength
  <2> QED
    BY <1>2, <2>1, <2>2
<1>3. CASE t.month = 2 /\ ~ MisjudgedYear(t.year)
  <2>1. t.year \in 0 .. 99
    BY ValidFields, DS1287Assumption
  <2>2. isLeap(t.year) <=> LeapYear(t.year)
    BY <1>3, <2>1, RulesAgree
  <2> QED
    BY <1>3, <2>2 DEF DaysIn, MonthLength
<1> QED
  BY <1>1, <1>2, <1>3

(* A year that ends where the code counts on is not one of the last two. *)
LEMMA YearCounts ==
    ASSUME NEW t \in [Reg -> Byte], Valid(t), Counted(t), YearOver(t)
    PROVE  t.year + 2 < YearsPerCentury
<1>1. t.date = 31 /\ LastSecond(t) /\ t.month = 12
  BY DEF YearOver, MonthIsOver, MonthLength, DayOver, HourOver, MinuteOver, LastSecond
<1>2. ~ (t.year + 2 >= YearsPerCentury)
  BY <1>1 DEF Counted, CenturyMissed
<1>3. t.year \in Nat /\ YearsPerCentury \in Nat
  BY ValidFields, DS1287Assumption
<1> QED
  BY <1>2, <1>3

(* No increment of such a moment reaches the end of a byte. *)
LEMMA AdvanceFields ==
    ASSUME NEW t \in [Reg -> Byte], Valid(t), Counted(t)
    PROVE  LET u == Tomorrow(t) IN
           /\ u.sec = IF MinuteOver(t) THEN 0 ELSE t.sec + 1
           /\ u.min = IF HourOver(t) THEN 0
                      ELSE IF MinuteOver(t) THEN t.min + 1 ELSE t.min
           /\ u.hr = IF DayOver(t) THEN 0
                     ELSE IF HourOver(t) THEN t.hr + 1 ELSE t.hr
           /\ u.day = IF ~ DayOver(t) THEN t.day ELSE (t.day % 7) + 1
           /\ u.date = IF MonthIsOver(t) THEN 1
                       ELSE IF DayOver(t) THEN t.date + 1 ELSE t.date
           /\ u.month = IF YearOver(t) THEN 1
                        ELSE IF MonthIsOver(t) THEN t.month + 1 ELSE t.month
           /\ u.year = IF YearOver(t) THEN t.year + 1 ELSE t.year
<1>1. \A v \in 0 .. 254 : Inc(v) = v + 1
  BY DEF Inc
<1>2. /\ t.sec \in 0 .. 254 /\ t.min \in 0 .. 254 /\ t.hr \in 0 .. 254
      /\ t.day \in 1 .. 7 /\ t.date \in 0 .. 254 /\ t.month \in 1 .. 12
      /\ t.year \in 0 .. 254
  BY ValidFields, DS1287Assumption, SMTT(40)
<1>3. /\ Inc(t.sec) = t.sec + 1 /\ Inc(t.min) = t.min + 1 /\ Inc(t.hr) = t.hr + 1
      /\ Inc(t.day) = t.day + 1 /\ Inc(t.date) = t.date + 1
      /\ Inc(t.month) = t.month + 1 /\ Inc(t.year) = t.year + 1
  <2>1. t.day \in 0 .. 254 /\ t.month \in 0 .. 254
    BY <1>2
  <2>2. Inc(t.sec) = t.sec + 1 /\ Inc(t.min) = t.min + 1 /\ Inc(t.hr) = t.hr + 1
    BY <1>1, <1>2, Zenon
  <2>3. Inc(t.day) = t.day + 1 /\ Inc(t.date) = t.date + 1
    BY <1>1, <1>2, <2>1, Zenon
  <2>4. Inc(t.month) = t.month + 1 /\ Inc(t.year) = t.year + 1
    BY <1>1, <1>2, <2>1, Zenon
  <2> QED
    BY <2>2, <2>3, <2>4
<1>4. (IF t.day + 1 = 8 THEN 1 ELSE t.day + 1) = (t.day % 7) + 1
  BY <1>2
<1>5. t.month + 1 = 13 <=> t.month = 12
  BY <1>2
<1> DEFINE u == Tomorrow(t)
<1>6. /\ u.sec = IF MinuteOver(t) THEN 0 ELSE Inc(t.sec)
      /\ u.min = IF HourOver(t) THEN 0 ELSE IF MinuteOver(t) THEN Inc(t.min) ELSE t.min
      /\ u.hr = IF DayOver(t) THEN 0 ELSE IF HourOver(t) THEN Inc(t.hr) ELSE t.hr
      /\ u.day = IF ~ DayOver(t) THEN t.day ELSE IF t.day + 1 = 8 THEN 1 ELSE Inc(t.day)
      /\ u.date = IF MonthIsOver(t) THEN 1 ELSE IF DayOver(t) THEN Inc(t.date) ELSE t.date
      /\ u.month = IF YearOver(t) THEN 1 ELSE IF MonthIsOver(t) THEN Inc(t.month) ELSE t.month
      /\ u.year = IF YearOver(t) THEN Inc(t.year) ELSE t.year
  <2>1. DayOver(t) /\ MonthOver(t.date, DaysIn(t.month, t.year)) <=> MonthIsOver(t)
    BY TableAgrees DEF MonthIsOver, MonthOver
  <2>2. YearOver(t) => t.year + 1 # YearsPerCycle
    <3>1. t.year \in Nat /\ YearsPerCentury \in Nat
      BY ValidFields, DS1287Assumption
    <3> QED
      BY <3>1, YearCounts DEF YearsPerCycle
  <2> QED
    BY <1>5, <2>1, <2>2 DEF Tomorrow, Advance, MinuteOver, HourOver, DayOver, YearOver,
                            Reg, TimeReg
<1> HIDE DEF u
<1> QED
  BY <1>3, <1>4, <1>6 DEF u

(* The update of a moment of the calendar is a moment of the calendar.     *)
LEMMA AdvanceIsValid ==
    ASSUME NEW t \in [Reg -> Byte], Valid(t), Counted(t)
    PROVE  Valid(Tomorrow(t))
<1> DEFINE u == Tomorrow(t)
<1>1. /\ u.sec < SecondsPerMinute /\ u.min < MinutesPerHour /\ u.hr < HoursPerDay
  BY AdvanceFields, ValidFields, DS1287Assumption DEF MinuteOver, HourOver, DayOver
<1>2. u.day \in 1 .. 7 /\ u.month \in 1 .. 12 /\ u.year < YearsPerCentury
  <2>1. /\ u.day = IF ~ DayOver(t) THEN t.day ELSE (t.day % 7) + 1
        /\ u.month = IF YearOver(t) THEN 1
                     ELSE IF MonthIsOver(t) THEN t.month + 1 ELSE t.month
        /\ u.year = IF YearOver(t) THEN t.year + 1 ELSE t.year
    BY AdvanceFields
  <2>2. /\ t.day \in 1 .. 7 /\ t.month \in 1 .. 12
        /\ t.year \in 0 .. YearsPerCentury - 1 /\ YearsPerCentury \in 2 .. 100
    BY ValidFields, DS1287Assumption
  <2>3. /\ MonthIsOver(t) /\ ~ YearOver(t) => t.month # 12
        /\ YearOver(t) => t.year + 2 < YearsPerCentury
    BY YearCounts DEF YearOver
  <2> HIDE DEF u
  <2> QED
    BY <2>1, <2>2, <2>3
<1>3. u.date \in 1 .. MonthLength(u.month, u.year)
  <2>1. CASE MonthIsOver(t)
    <3>1. u.date = 1
      BY <2>1, AdvanceFields
    <3>2. u.month \in 1 .. 12
      BY <1>2
    <3>3. MonthLength(u.month, u.year) \in 28 .. 31
      <4> HIDE DEF u
      <4> QED  BY <3>2 DEF MonthLength
    <3> QED
      BY <3>1, <3>3
  <2>2. CASE ~ MonthIsOver(t)
    <3>1. /\ u.month = t.month /\ u.year = t.year
          /\ u.date = IF DayOver(t) THEN t.date + 1 ELSE t.date
      BY <2>2, AdvanceFields DEF YearOver
    <3>2. DayOver(t) => t.date # MonthLength(t.month, t.year)
      BY <2>2 DEF MonthIsOver
    <3>3. MonthLength(t.month, t.year) \in 28 .. 31 /\ t.date \in 1 .. MonthLength(t.month, t.year)
      BY ValidFields
    <3> HIDE DEF u
    <3> QED
      BY <3>1, <3>2, <3>3
  <2> QED
    BY <2>1, <2>2
<1> QED
  BY <1>1, <1>2, <1>3 DEF Valid

(* The days of the century are numbered from 0 up. *)
LEMMA DayInCentury ==
    ASSUME NEW t \in [Reg -> Byte], Valid(t)
    PROVE  /\ DayNumber(t) = YearStart[t.year] + Before(t.month, t.year) + t.date - 1
           /\ DayNumber(t) \in Nat
           /\ DayNumber(t) + 1 <= YearStart[YearsPerCentury]
           /\ YearStart[YearsPerCentury] \in Nat
<1> DEFINE s == YearStart[t.year]
           b == Before(t.month, t.year)
           n == MonthLength(t.month, t.year)
           e == YearStart[YearsPerCentury]
<1>1. t.month \in 1 .. 12 /\ t.year \in 0 .. YearsPerCentury - 1 /\ YearsPerCentury \in 2 .. 100
  BY ValidFields, DS1287Assumption
<1>2. n \in 28 .. 31 /\ t.date \in 1 .. n
  BY ValidFields
<1>3. MonthStart[t.month][t.year] = b
  BY <1>1, MonthsAddUp
<1>4. s \in Nat /\ e \in Nat
  <2>1. t.year \in 0 .. YearsPerCentury /\ YearsPerCentury \in 0 .. YearsPerCentury
    BY <1>1
  <2> QED
    BY <2>1, YearsAddUp
<1>5. b \in Nat /\ b + n <= DaysOf(t.year) /\ DaysOf(t.year) \in Nat
  BY <1>1, BeforeAddsUp DEF DaysOf
<1>6. s + DaysOf(t.year) <= e
  BY <1>1, YearsEndInCentury
<1>7. DayNumber(t) = s + b + t.date - 1
  BY <1>3 DEF DayNumber
<1> HIDE DEF s, b, n, e
<1>8. DayNumber(t) \in Nat /\ DayNumber(t) + 1 <= e
  BY <1>2, <1>4, <1>5, <1>6, <1>7
<1> QED
  BY <1>4, <1>7, <1>8 DEF s, b, e

(* At midnight the next day comes. *)
LEMMA NextDay ==
    ASSUME NEW t \in [Reg -> Byte], Valid(t), Counted(t)
    PROVE  DayNumber(Tomorrow(t)) = IF DayOver(t) THEN DayNumber(t) + 1 ELSE DayNumber(t)
<1> DEFINE u == Tomorrow(t)
<1>1. /\ u \in [Reg -> Byte] /\ Valid(u)
  BY AdvanceIsTime, AdvanceIsValid DEF Tomorrow
<1>2. DayNumber(u) = YearStart[u.year] + Before(u.month, u.year) + u.date - 1
  BY <1>1, DayInCentury
<1>3. DayNumber(t) = YearStart[t.year] + Before(t.month, t.year) + t.date - 1
  BY DayInCentury
<1>4. /\ t.month \in 1 .. 12 /\ t.year \in 0 .. YearsPerCentury - 1
      /\ YearsPerCentury \in 2 .. 100
      /\ MonthLength(t.month, t.year) \in 28 .. 31
      /\ t.date \in 1 .. MonthLength(t.month, t.year)
  BY ValidFields, DS1287Assumption
<1>5. YearStart[t.year] \in Nat /\ Before(t.month, t.year) \in Nat
  <2>1. t.year \in 0 .. YearsPerCentury
    BY <1>4
  <2> QED
    BY <1>4, <2>1, YearsAddUp, BeforeAddsUp
<1>6. CASE ~ MonthIsOver(t)
  <2>1. /\ u.month = t.month /\ u.year = t.year
        /\ u.date = IF DayOver(t) THEN t.date + 1 ELSE t.date
    BY <1>6, AdvanceFields DEF YearOver
  <2> HIDE DEF u
  <2> QED
    BY <1>2, <1>3, <1>4, <1>5, <2>1 DEF u
<1>7. CASE MonthIsOver(t) /\ ~ YearOver(t)
  <2>1. u.month = t.month + 1 /\ u.year = t.year /\ u.date = 1
    BY <1>7, AdvanceFields
  <2>2. DayOver(t) /\ t.date = MonthLength(t.month, t.year) /\ t.month # 12
    BY <1>7 DEF MonthIsOver, YearOver
  <2>3. Before(t.month + 1, t.year) =
           Before(t.month, t.year) + MonthLength(t.month, t.year)
    <3>1. t.month + 1 \in 2 .. 12 /\ (t.month + 1) - 1 = t.month
      BY <1>4, <2>2
    <3> QED
      BY <3>1, BeforeAddsUp
  <2> HIDE DEF u
  <2> QED
    BY <1>2, <1>3, <1>4, <1>5, <2>1, <2>2, <2>3 DEF u
<1>8. CASE YearOver(t)
  <2>1. u.month = 1 /\ u.date = 1 /\ u.year = t.year + 1
    BY <1>8, AdvanceFields DEF YearOver
  <2>2. DayOver(t) /\ t.date = MonthLength(t.month, t.year) /\ t.month = 12
    BY <1>8 DEF MonthIsOver, YearOver
  <2>3. Before(12, t.year) + MonthLength(12, t.year) = DaysOf(t.year)
    BY BeforeAddsUp
  <2>4. YearStart[t.year + 1] = YearStart[t.year] + DaysOf(t.year)
    BY <1>4, YearsAddUp
  <2>5. DayNumber(t) + 1 = YearStart[t.year + 1]
    BY <1>3, <1>4, <1>5, <2>2, <2>3, <2>4 DEF DaysOf
  <2>6. DayNumber(u) = YearStart[u.year]
    <3>1. Before(1, u.year) = 0
      BY BeforeAddsUp
    <3>2. YearStart[u.year] \in Nat
      <4>1. u.year \in 0 .. YearsPerCentury
        BY <1>4, <2>1
      <4> QED
        BY <4>1, YearsAddUp
    <3> HIDE DEF u
    <3> QED
      BY <1>2, <2>1, <3>1, <3>2
  <2> QED
    BY <2>1, <2>2, <2>5, <2>6
<1> QED
  BY <1>6, <1>7, <1>8 DEF YearOver
-----------------------------------------------------------------------------
(* A digit of base n and the digits above it. *)
LEMMA DigitInRange ==
    ASSUME NEW a \in Nat, NEW b \in Nat, NEW n \in Nat \ {0}, NEW r \in 0 .. n - 1,
           a + 1 <= b
    PROVE  /\ a * n + r \in Nat
           /\ a * n + r + 1 <= b * n
           /\ b * n \in Nat
<1>1. a * n \in Nat /\ b * n \in Nat
  OBVIOUS
<1>2. (a + 1) * n <= b * n
  OBVIOUS
<1>3. (a + 1) * n = a * n + n
  OBVIOUS
<1> QED
  BY <1>1, <1>2, <1>3

LEMMA MomentInCentury ==
    ASSUME NEW t \in [Reg -> Byte], Valid(t)
    PROVE  Moment(t) \in Nat /\ Century \in Nat /\ Moment(t) + 1 <= Century
<1> DEFINE S == SecondsPerMinute
           N == MinutesPerHour
           H == HoursPerDay
           D == DayNumber(t)
           E == YearStart[YearsPerCentury]
<1>1. S \in Nat \ {0} /\ N \in Nat \ {0} /\ H \in Nat \ {0}
  BY DS1287Assumption
<1>2. D \in Nat /\ E \in Nat /\ D + 1 <= E
  BY DayInCentury
<1>3. t.sec \in 0 .. S - 1 /\ t.min \in 0 .. N - 1 /\ t.hr \in 0 .. H - 1
  BY ValidFields
<1> HIDE DEF S, N, H, D, E
<1>4. /\ D * H + t.hr \in Nat /\ E * H \in Nat
      /\ D * H + t.hr + 1 <= E * H
  BY <1>1, <1>2, <1>3, DigitInRange
<1>5. /\ (D * H + t.hr) * N + t.min \in Nat /\ E * H * N \in Nat
      /\ (D * H + t.hr) * N + t.min + 1 <= E * H * N
  BY <1>1, <1>3, <1>4, DigitInRange
<1>6. /\ ((D * H + t.hr) * N + t.min) * S + t.sec \in Nat /\ E * H * N * S \in Nat
      /\ ((D * H + t.hr) * N + t.min) * S + t.sec + 1 <= E * H * N * S
  BY <1>1, <1>3, <1>5, DigitInRange
<1> QED
  BY <1>6 DEF Moment, Century, S, N, H, D, E

(* A digit that is full carries. *)
LEMMA Carry ==
    ASSUME NEW a \in Nat, NEW n \in Nat, NEW r \in Nat, r + 1 = n
    PROVE  a * n + r + 1 = (a + 1) * n /\ (a + 1) * n + 0 = (a + 1) * n
<1>1. a * n \in Nat /\ (a + 1) * n = a * n + n
  OBVIOUS
<1> QED
  BY <1>1

LEMMA NextMoment ==
    ASSUME NEW t \in [Reg -> Byte], Valid(t), Counted(t)
    PROVE  Moment(Tomorrow(t)) = (Moment(t) + 1) % Century
<1> DEFINE u == Tomorrow(t)
           S == SecondsPerMinute
           N == MinutesPerHour
           H == HoursPerDay
           D == DayNumber(t)
           d == DayNumber(u)
           h == D * H + t.hr
           m == h * N + t.min
           g == d * H + u.hr
           l == g * N + u.min
<1>1. u \in [Reg -> Byte] /\ Valid(u)
  BY AdvanceIsTime, AdvanceIsValid DEF Tomorrow
<1>2. /\ Moment(t) \in Nat /\ Moment(u) \in Nat /\ Century \in Nat
      /\ Moment(t) + 1 <= Century /\ Moment(u) + 1 <= Century
  BY <1>1, MomentInCentury
<1>3. Moment(t) = m * S + t.sec /\ Moment(u) = l * S + u.sec
  BY DEF Moment
<1>4. S \in Nat \ {0} /\ N \in Nat \ {0} /\ H \in Nat \ {0} /\ D \in Nat
  BY DS1287Assumption, DayInCentury
<1>5. t.sec \in Nat /\ t.min \in Nat /\ t.hr \in Nat
  BY ValidFields, DS1287Assumption
<1>6. /\ u.sec = IF MinuteOver(t) THEN 0 ELSE t.sec + 1
      /\ u.min = IF HourOver(t) THEN 0
                 ELSE IF MinuteOver(t) THEN t.min + 1 ELSE t.min
      /\ u.hr = IF DayOver(t) THEN 0
                ELSE IF HourOver(t) THEN t.hr + 1 ELSE t.hr
  BY AdvanceFields
<1>7. d = IF DayOver(t) THEN D + 1 ELSE D
  BY NextDay
<1>8. /\ MinuteOver(t) <=> t.sec + 1 = S
      /\ HourOver(t) <=> MinuteOver(t) /\ t.min + 1 = N
      /\ DayOver(t) <=> HourOver(t) /\ t.hr + 1 = H
  BY DEF MinuteOver, HourOver, DayOver
<1>9. h \in Nat /\ m \in Nat
  BY <1>4, <1>5
<1> HIDE DEF u, S, N, H, D, d
<1>10. Moment(u) = Moment(t) + 1
  <2>1. CASE ~ MinuteOver(t)
    <3>1. l = m
      BY <1>6, <1>7, <1>8, <2>1
    <3> HIDE DEF l, m
    <3> QED
      BY <1>3, <1>4, <1>5, <1>6, <1>9, <2>1, <3>1
  <2>2. CASE MinuteOver(t) /\ ~ HourOver(t)
    <3>1. g = h
      BY <1>6, <1>7, <1>8, <2>2
    <3>2. l = m + 1
      <4> HIDE DEF g, h
      <4> QED  BY <1>4, <1>5, <1>6, <1>9, <2>2, <3>1
    <3>3. u.sec = 0 /\ t.sec + 1 = S
      BY <1>6, <1>8, <2>2
    <3> HIDE DEF l, m
    <3>4. m * S + t.sec + 1 = (m + 1) * S /\ (m + 1) * S + 0 = (m + 1) * S
      BY <1>4, <1>5, <1>9, <3>3, Carry
    <3> QED
      BY <1>3, <3>2, <3>3, <3>4
  <2>3. CASE HourOver(t) /\ ~ DayOver(t)
    <3>1. g = h + 1
      BY <1>4, <1>5, <1>6, <1>7, <2>3
    <3>2. l = m + 1
      <4> HIDE DEF g, h
      <4>1. u.min = 0 /\ t.min + 1 = N
        BY <1>6, <1>8, <2>3
      <4>2. h * N + t.min + 1 = (h + 1) * N /\ (h + 1) * N + 0 = (h + 1) * N
        BY <1>4, <1>5, <1>9, <4>1, Carry
      <4> QED
        BY <3>1, <4>1, <4>2
    <3>3. u.sec = 0 /\ t.sec + 1 = S
      BY <1>6, <1>8, <2>3
    <3> HIDE DEF l, m
    <3>4. m * S + t.sec + 1 = (m + 1) * S /\ (m + 1) * S + 0 = (m + 1) * S
      BY <1>4, <1>5, <1>9, <3>3, Carry
    <3> QED
      BY <1>3, <3>2, <3>3, <3>4
  <2>4. CASE DayOver(t)
    <3>1. g = h + 1
      <4>1. d = D + 1 /\ u.hr = 0 /\ t.hr + 1 = H
        BY <1>6, <1>7, <1>8, <2>4
      <4>2. D * H + t.hr + 1 = (D + 1) * H /\ (D + 1) * H + 0 = (D + 1) * H
        <5>1. D \in Nat /\ H \in Nat /\ t.hr \in Nat /\ t.hr + 1 = H
          BY <1>4, <1>5, <4>1
        <5> QED
          BY <5>1, Carry, Zenon
      <4> QED
        BY <4>1, <4>2
    <3>2. u.sec = 0 /\ t.sec + 1 = S /\ u.min = 0 /\ t.min + 1 = N
      BY <1>6, <1>8, <2>4
    <3>3. l = m + 1
      <4> HIDE DEF g, h
      <4>1. h * N + t.min + 1 = (h + 1) * N /\ (h + 1) * N + 0 = (h + 1) * N
        BY <1>4, <1>5, <1>9, <3>2, Carry
      <4> QED
        BY <3>1, <3>2, <4>1
    <3> HIDE DEF l, m
    <3>4. m * S + t.sec + 1 = (m + 1) * S /\ (m + 1) * S + 0 = (m + 1) * S
      BY <1>4, <1>5, <1>9, <3>2, Carry
    <3> QED
      BY <1>3, <3>2, <3>3, <3>4
  <2> QED
    BY <1>8, <2>1, <2>2, <2>3, <2>4
<1> QED
  BY <1>2, <1>10 DEF u

-----------------------------------------------------------------------------
(* The first moment of a day, given its number.                            *)
FirstMoment(d) == ((d * HoursPerDay) * MinutesPerHour) * SecondsPerMinute

LEMMA LaterDay ==
    ASSUME NEW d \in Nat, NEW e \in Nat, d < e
    PROVE  FirstMoment(d) \in Nat /\ FirstMoment(e) \in Nat
           /\ FirstMoment(d) < FirstMoment(e)
<1> DEFINE S == SecondsPerMinute
           N == MinutesPerHour
           H == HoursPerDay
<1>1. S \in Nat \ {0} /\ N \in Nat \ {0} /\ H \in Nat \ {0}
  BY DS1287Assumption
<1> HIDE DEF S, N, H
<1>2. ASSUME NEW a \in Nat, NEW b \in Nat, NEW n \in Nat \ {0}, a < b
      PROVE  a * n \in Nat /\ b * n \in Nat /\ a * n < b * n
  <2>1. 0 \in 0 .. n - 1 /\ a + 1 <= b
    BY <1>2
  <2>2. a * n + 0 + 1 <= b * n /\ b * n \in Nat
    BY <2>1, DigitInRange
  <2>3. a * n \in Nat
    OBVIOUS
  <2> QED
    BY <2>2, <2>3
<1>3. d * H \in Nat /\ e * H \in Nat /\ d * H < e * H
  BY <1>1, <1>2
<1>4. (d * H) * N \in Nat /\ (e * H) * N \in Nat /\ (d * H) * N < (e * H) * N
  BY <1>1, <1>2, <1>3
<1>5. ((d * H) * N) * S \in Nat /\ ((e * H) * N) * S \in Nat
      /\ ((d * H) * N) * S < ((e * H) * N) * S
  BY <1>1, <1>2, <1>4
<1> QED
  BY <1>5 DEF FirstMoment, S, N, H

(* The moment after the last second of a day is the first of the next day. *)
LEMMA DayEnds ==
    ASSUME NEW t \in [Reg -> Byte], Valid(t), LastSecond(t)
    PROVE  Moment(t) + 1 = FirstMoment(DayNumber(t) + 1)
<1> DEFINE S == SecondsPerMinute
           N == MinutesPerHour
           H == HoursPerDay
           D == DayNumber(t)
           h == D * H + t.hr
           m == h * N + t.min
<1>1. S \in Nat /\ N \in Nat /\ H \in Nat /\ D \in Nat
  BY DS1287Assumption, DayInCentury
<1>2. t.sec \in Nat /\ t.min \in Nat /\ t.hr \in Nat
  BY ValidFields, DS1287Assumption
<1>3. t.sec + 1 = S /\ t.min + 1 = N /\ t.hr + 1 = H
  BY DEF LastSecond
<1>4. Moment(t) = m * S + t.sec
  BY DEF Moment
<1>5. FirstMoment(D + 1) = (((D + 1) * H) * N) * S
  BY DEF FirstMoment
<1> HIDE DEF S, N, H, D
<1>6. h \in Nat /\ h + 1 = (D + 1) * H
  BY <1>1, <1>2, <1>3, Carry
<1> HIDE DEF h
<1>7. m \in Nat /\ m + 1 = (h + 1) * N
  BY <1>1, <1>2, <1>3, <1>6, Carry
<1> HIDE DEF m
<1>8. m * S + t.sec + 1 = (m + 1) * S
  BY <1>1, <1>2, <1>3, <1>7, Carry
<1> QED
  BY <1>4, <1>5, <1>6, <1>7, <1>8 DEF D

(* A clock that goes from the last second of a day to the first of another *)
(* than the next one has not counted.                                      *)
LEMMA NotTheNextDay ==
    ASSUME NEW t \in [Reg -> Byte], Valid(t), LastSecond(t),
           NEW u \in [Reg -> Byte], u.sec = 0, u.min = 0, u.hr = 0,
           Valid(u) => /\ DayNumber(u) # DayNumber(t) + 1
                       /\ DayNumber(u) # 0 \/ DayNumber(t) + 1 # YearStart[YearsPerCentury]
    PROVE  ~ Follows(u, t)
<1> SUFFICES ASSUME Valid(u), Moment(u) = (Moment(t) + 1) % Century PROVE FALSE
  BY DEF Follows
<1> DEFINE D == DayNumber(t)
           d == DayNumber(u)
           E == YearStart[YearsPerCentury]
<1>1. D \in Nat /\ d \in Nat /\ E \in Nat /\ D + 1 <= E /\ d + 1 <= E
  BY DayInCentury
<1>2. d # D + 1 /\ (d # 0 \/ D + 1 # E)
  OBVIOUS
<1>3. Moment(t) + 1 = FirstMoment(D + 1)
  BY DayEnds
<1>4. Moment(u) = FirstMoment(d)
  <2>1. Moment(u) = ((d * HoursPerDay + 0) * MinutesPerHour + 0) * SecondsPerMinute + 0
    BY DEF Moment
  <2>2. HoursPerDay \in Nat /\ MinutesPerHour \in Nat /\ SecondsPerMinute \in Nat
    BY DS1287Assumption
  <2> HIDE DEF d
  <2>3. d * HoursPerDay \in Nat
    BY <1>1, <2>2
  <2>4. (d * HoursPerDay) * MinutesPerHour \in Nat
    BY <2>2, <2>3
  <2>5. ((d * HoursPerDay) * MinutesPerHour) * SecondsPerMinute \in Nat
    BY <2>2, <2>4
  <2>6. d * HoursPerDay + 0 = d * HoursPerDay
    BY <2>3
  <2>7. (d * HoursPerDay) * MinutesPerHour + 0 = (d * HoursPerDay) * MinutesPerHour
    BY <2>4
  <2> QED
    BY <2>1, <2>5, <2>6, <2>7 DEF FirstMoment
<1>5. Century = FirstMoment(E)
  BY DEF Century, FirstMoment
<1> HIDE DEF D, d, E
<1>6. FirstMoment(0) = 0
  BY DS1287Assumption DEF FirstMoment
<1>7. FirstMoment(d) \in Nat /\ FirstMoment(E) \in Nat /\ FirstMoment(d) < FirstMoment(E)
  BY <1>1, LaterDay
<1>8. CASE D + 1 = E
  <2>1. (Moment(t) + 1) % Century = 0
    BY <1>3, <1>5, <1>7, <1>8
  <2>2. FirstMoment(0) < FirstMoment(d)
    BY <1>1, <1>2, <1>8, LaterDay
  <2> QED
    BY <1>4, <1>6, <1>7, <2>1, <2>2
<1>9. CASE D + 1 # E
  <2>1. /\ FirstMoment(D + 1) \in Nat /\ FirstMoment(D + 1) < FirstMoment(E)
    BY <1>1, <1>9, LaterDay
  <2>2. (Moment(t) + 1) % Century = FirstMoment(D + 1)
    BY <1>3, <1>5, <1>7, <2>1
  <2>3. CASE d < D + 1
    BY <1>1, <1>4, <1>7, <2>1, <2>2, <2>3, LaterDay
  <2>4. CASE D + 1 < d
    BY <1>1, <1>4, <1>7, <2>1, <2>2, <2>4, LaterDay
  <2> QED
    BY <1>1, <1>2, <2>3, <2>4
<1> QED
  BY <1>8, <1>9

(* The two rules differ on the years that are called misjudged.            *)
LEMMA RulesDiffer ==
    ASSUME NEW year \in 0 .. 99, MisjudgedYear(year)
    PROVE  isLeap(year) <=> ~ LeapYear(year)
<1> DEFINE y == 1900 + year
<1>1. y \in 1901 .. 1999 /\ y % 12 \in {3, 4, 6, 8, 9}
  BY DEF MisjudgedYear
<1>2. /\ isLeap(year) <=> y % 3 = 0 /\ (y % 100 # 0 \/ y % 400 = 0)
      /\ LeapYear(year) <=> y % 4 = 0 /\ (y % 100 # 0 \/ y % 400 = 0)
  BY DEF isLeap, LeapYear
<1> HIDE DEF y
<1>3. y % 100 # 0
  BY <1>1
<1>4. y % 3 = 0 <=> y % 4 # 0
  BY <1>1
<1> QED
  BY <1>2, <1>3, <1>4

(* What the end of any day carries into. *)
LEMMA AtMidnight ==
    ASSUME NEW t \in [Reg -> Byte], Valid(t), LastSecond(t)
    PROVE  LET u == Tomorrow(t)
               over == t.date = DaysIn(t.month, t.year)
           IN  /\ u \in [Reg -> Byte]
               /\ u.sec = 0 /\ u.min = 0 /\ u.hr = 0
               /\ u.date = IF over THEN 1 ELSE t.date + 1
               /\ u.month = IF ~ over THEN t.month
                            ELSE IF t.month = 12 THEN 1 ELSE t.month + 1
               /\ u.year = IF ~ over \/ t.month # 12 THEN t.year
                           ELSE IF t.year + 1 = YearsPerCycle THEN 0 ELSE t.year + 1
<1> DEFINE u == Tomorrow(t)
           over == t.date = DaysIn(t.month, t.year)
<1>1. \A v \in 0 .. 254 : Inc(v) = v + 1
  BY DEF Inc
<1>2. t.date \in 0 .. 254 /\ t.month \in 1 .. 12 /\ t.year \in 0 .. 254
  BY ValidFields, DS1287Assumption, SMTT(40)
<1>3. t.month \in 0 .. 254 /\ (t.month + 1 = 13 <=> t.month = 12)
  BY <1>2
<1>4. Inc(t.date) = t.date + 1 /\ Inc(t.month) = t.month + 1 /\ Inc(t.year) = t.year + 1
  BY <1>1, <1>2, <1>3, Zenon
<1>5. u \in [Reg -> Byte]
  BY AdvanceIsTime DEF Tomorrow
<1>6. /\ u.sec = 0 /\ u.min = 0 /\ u.hr = 0
      /\ u.date = IF over THEN 1 ELSE Inc(t.date)
      /\ u.month = IF ~ over THEN t.month
                   ELSE IF t.month + 1 = 13 THEN 1 ELSE Inc(t.month)
      /\ u.year = IF ~ over \/ t.month + 1 # 13 THEN t.year
                  ELSE IF t.year + 1 = YearsPerCycle THEN 0 ELSE Inc(t.year)
  BY DEF Tomorrow, Advance, MonthOver, LastSecond, Reg, TimeReg
<1> HIDE DEF u, over
<1> QED
  BY <1>3, <1>4, <1>5, <1>6 DEF u, over

(* A misjudged February never ends well: the code has a day of it that is  *)
(* none, or leaves out its last day.                                       *)
LEMMA LeapIsMissed ==
    ASSUME NEW t \in [Reg -> Byte], Valid(t), LeapMissed(t)
    PROVE  ~ Follows(Tomorrow(t), t)
<1> DEFINE u == Tomorrow(t)
           n == MonthLength(2, t.year)
<1>1. /\ LastSecond(t) /\ t.month = 2 /\ t.date \in {28, 29}
      /\ MisjudgedYear(t.year)
  BY DEF LeapMissed
<1>2. t.year \in 0 .. 99 /\ t.year \in 0 .. YearsPerCentury - 1 /\ t.date \in 1 .. n
  BY <1>1, ValidFields, DS1287Assumption
<1>3. isLeap(t.year) <=> ~ LeapYear(t.year)
  BY <1>1, <1>2, RulesDiffer
<1>4. /\ u \in [Reg -> Byte]
      /\ u.sec = 0 /\ u.min = 0 /\ u.hr = 0 /\ u.year = t.year
      /\ u.date = IF t.date = DaysIn(2, t.year) THEN 1 ELSE t.date + 1
      /\ u.month = IF t.date = DaysIn(2, t.year) THEN 3 ELSE 2
  BY <1>1, AtMidnight
<1>5. CASE t.date # DaysIn(2, t.year)
  <2>1. t.date = n
    BY <1>1, <1>2, <1>3, <1>5 DEF DaysIn, MonthLength
  <2>2. u.date = n + 1 /\ u.month = 2 /\ u.year = t.year /\ n \in Nat
    BY <1>4, <1>5, <2>1 DEF MonthLength
  <2> HIDE DEF u, n
  <2>3. u.date \notin 1 .. n
    BY <2>2
  <2>4. ~ Valid(u)
    BY <2>2, <2>3 DEF Valid, n
  <2> QED
    BY <2>4 DEF Follows, u
<1>6. CASE t.date = DaysIn(2, t.year)
  <2>1. t.date = 28 /\ LeapYear(t.year)
    BY <1>1, <1>2, <1>3, <1>6 DEF DaysIn, MonthLength
  <2>2. u.date = 1 /\ u.month = 3
    BY <1>4, <1>6
  <2>3. Before(3, t.year) = 60 /\ Before(2, t.year) = 31
    BY <2>1 DEF Before
  <2>4. YearStart[t.year] \in Nat
    <3>1. t.year \in 0 .. YearsPerCentury
      BY <1>2, DS1287Assumption
    <3> QED
      BY <3>1, YearsAddUp
  <2>5. DayNumber(t) = YearStart[t.year] + 58
    BY <1>1, <2>1, <2>3, <2>4, DayInCentury
  <2> HIDE DEF u
  <2>6. Valid(u) => DayNumber(u) = YearStart[t.year] + 60
    BY <1>4, <2>2, <2>3, <2>4, DayInCentury
  <2>7. Valid(u) => DayNumber(u) # DayNumber(t) + 1 /\ DayNumber(u) # 0
    BY <2>4, <2>5, <2>6
  <2> QED
    BY <1>1, <1>4, <2>7, NotTheNextDay DEF u
<1> QED
  BY <1>5, <1>6

(* Nor do the last two years: one is followed by year 0, a year too early, *)
(* the other by a year that is none.                                       *)
LEMMA CenturyIsMissed ==
    ASSUME NEW t \in [Reg -> Byte], Valid(t), CenturyMissed(t)
    PROVE  ~ Follows(Tomorrow(t), t)
<1> DEFINE u == Tomorrow(t)
<1>1. LastSecond(t) /\ t.month = 12 /\ t.date = 31 /\ t.year + 2 >= YearsPerCentury
  BY DEF CenturyMissed
<1>2. t.year \in 0 .. YearsPerCentury - 1 /\ YearsPerCentury \in 2 .. 100
  BY ValidFields, DS1287Assumption
<1>3. DaysIn(12, t.year) = 31
  BY DEF DaysIn
<1>4. /\ u \in [Reg -> Byte]
      /\ u.sec = 0 /\ u.min = 0 /\ u.hr = 0 /\ u.date = 1 /\ u.month = 1
      /\ u.year = IF t.year + 1 = YearsPerCycle THEN 0 ELSE t.year + 1
  BY <1>1, <1>3, AtMidnight
<1> HIDE DEF u
<1>5. CASE t.year + 1 = YearsPerCentury
  <2>1. u.year = YearsPerCentury
    BY <1>2, <1>4, <1>5 DEF YearsPerCycle
  <2>2. ~ Valid(u)
    BY <1>2, <2>1 DEF Valid
  <2> QED
    BY <2>2 DEF Follows, u
<1>6. CASE t.year + 2 = YearsPerCentury
  <2>1. u.year = 0
    BY <1>2, <1>4, <1>6 DEF YearsPerCycle
  <2> DEFINE n == t.year + 1
             E == YearStart[YearsPerCentury]
  <2>2. n \in 0 .. YearsPerCentury - 1 /\ n + 1 = YearsPerCentury
        /\ n \in 0 .. YearsPerCentury
    BY <1>2, <1>6
  <2>3. E = YearStart[n] + DaysOf(n) /\ YearStart[n] \in Nat
    BY <2>2, YearsAddUp
  <2>4. DayNumber(t) + 1 <= YearStart[n] /\ DayNumber(t) + 1 > 0
    <3>1. YearStart[n] = YearStart[t.year] + DaysOf(t.year) /\ YearStart[t.year] \in Nat
      <4>1. t.year \in 0 .. YearsPerCentury
        BY <1>2
      <4> QED
        BY <1>2, <4>1, YearsAddUp
    <3>2. Before(12, t.year) + 31 = DaysOf(t.year) /\ Before(12, t.year) \in Nat
      <4>1. MonthLength(12, t.year) = 31
        BY DEF MonthLength
      <4> QED
        BY <4>1, BeforeAddsUp
    <3>3. DayNumber(t) = YearStart[t.year] + Before(12, t.year) + 30
      <4>1. DayNumber(t) = YearStart[t.year] + Before(12, t.year) + 31 - 1
        BY <1>1, DayInCentury
      <4> QED
        BY <3>1, <3>2, <4>1
    <3> HIDE DEF n
    <3> QED
      BY <3>1, <3>2, <3>3 DEF DaysOf
  <2>5. Valid(u) => DayNumber(u) = 0
    <3>1. YearStart[0] = 0 /\ Before(1, 0) = 0
      BY YearsAddUp, BeforeAddsUp
    <3> SUFFICES ASSUME Valid(u) PROVE DayNumber(u) = 0
      OBVIOUS
    <3>2. DayNumber(u) = YearStart[u.year] + Before(u.month, u.year) + u.date - 1
      BY <1>4, DayInCentury
    <3> QED
      BY <1>4, <2>1, <3>1, <3>2
  <2>6. DayNumber(t) \in Nat
    BY DayInCentury
  <2> HIDE DEF n, E
  <2>7. DayNumber(t) + 1 # E /\ DayNumber(t) + 1 # 0
    BY <2>3, <2>4, <2>6 DEF DaysOf
  <2> QED
    BY <1>1, <1>4, <2>5, <2>7, NotTheNextDay DEF u, E
<1> QED
  BY <1>1, <1>2, <1>5, <1>6

(* Once the clock shows a moment of the calendar, each update shows the    *)
(* next one, through every carry (ds1287.c:243-285), except at the end of a *)
(* February whose length the code misjudges (255) and of years 98 and 99   *)
(* (279), where it never does.                                             *)
THEOREM ClockKeepsTime == ClockSpec => NextSecond
<1> DEFINE Good == Updates => (Follows(gRTC', gRTC) <=>
                                 ~ LeapMissed(gRTC) /\ ~ CenturyMissed(gRTC))
<1>1. TimesInv /\ [ClockNext]_clockVars => [Good]_clockVars
  <2> SUFFICES ASSUME TimesInv, ClockNext, Valid(gRTC), gRTC' # gRTC, shown' = Nothing
               PROVE  Follows(gRTC', gRTC) <=> Counted(gRTC)
    BY DEF Updates, Counted
  <2>1. gRTC' = Tomorrow(gRTC)
    <3>1. \A r \in Written, v \in Bytes : ~ WriteTime(r, v)
      <4> SUFFICES ASSUME NEW r \in Written, NEW v \in Bytes, WriteTime(r, v)
                   PROVE  FALSE
        OBVIOUS
      <4>1. shown'.kind = "wrote" /\ shown'.kind = "nothing"
        BY DEF WriteTime, Nothing
      <4> QED
        BY <4>1
    <3>2. ds1287step
      BY <3>1 DEF ClockNext, ReadC, WriteA, WriteB
    <3>3. \E days \in DaysPerMonth(gRTC.month, gRTC.year) : gRTC' = Advance(gRTC, days)
      BY <3>2, Zenon DEF ds1287step
    <3>4. DaysPerMonth(gRTC.month, gRTC.year) = {DaysIn(gRTC.month, gRTC.year)}
      BY DEF DaysPerMonth, Valid
    <3> QED
      BY <3>3, <3>4 DEF Tomorrow
  <2>2. gRTC \in [Reg -> Byte]
    BY DEF TimesInv
  <2>3. CASE Counted(gRTC)
    <3>1. DayNumber(gRTC') = DayNumber(gRTC) <=> ~ DayOver(gRTC)
      BY <2>1, <2>2, <2>3, NextDay, DayInCentury
    <3>2. gRTC'.day = IF ~ DayOver(gRTC) THEN gRTC.day ELSE (gRTC.day % 7) + 1
      BY <2>1, <2>2, <2>3, AdvanceFields
    <3> QED
      BY <2>1, <2>2, <2>3, <3>1, <3>2, AdvanceIsValid, NextMoment DEF Follows
  <2>4. CASE LeapMissed(gRTC)
    BY <2>1, <2>2, <2>4, LeapIsMissed DEF Counted
  <2>5. CASE CenturyMissed(gRTC)
    BY <2>1, <2>2, <2>5, CenturyIsMissed DEF Counted
  <2> QED
    BY <2>3, <2>4, <2>5 DEF Counted
<1> QED
  BY <1>1, TimesAreBytes, PTL DEF ClockSpec, NextSecond
=============================================================================
