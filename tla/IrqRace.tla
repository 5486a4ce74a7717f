------------------------------- MODULE IrqRace -------------------------------
(***************************************************************************)
(* Three threads of control share cpu.cause and the devices, with no lock: *)
(*   "console"  the loop of core 0, which hands characters to dz11charRx;  *)
(*   "timer"    the repeating timer, whose callback calls ds1287step and   *)
(*              interrupts the loop of core 0;                             *)
(*   "cpu"      core 1: register accesses, exceptions, MTC0.               *)
(*                                                                         *)
(* A C statement that changes shared memory is a load and a store here,    *)
(* with steps of the other core, and the timer, between them.  Modelled is *)
(* the memory that another thread changes: cpu.cause, the byte of bit      *)
(* fields of gDZ11, rxBytesUsed of the console line, gRTC.ctrlC.  The read *)
(* pointer, the characters and the other lines are left to module DZ11,    *)
(* and the console line is taken to be switched on (rxEna), which allows   *)
(* more interleavings than a line that a reset has switched off.           *)
(***************************************************************************)
EXTENDS Integers, Sequences

CONSTANTS
    RingSize,    \* UART_RX_BUF_SZ
    ByteMax,     \* the largest value of a uint8_t
    Does,        \* what happens in an instance, of Work
    IrqEnables   \* the values of CSR.RIE the machine writes

Work == {"type", "tick",
         "rbuf", "csr", "clear", "status", "ack", "exception", "mtc0"}

ASSUME IrqRaceAssumption ==
    /\ ByteMax \in Nat
    /\ RingSize \in 1 .. ByteMax - 1
    /\ Does \subseteq Work
    /\ IrqEnables \subseteq BOOLEAN

VARIABLES
    cause,  \* cpu.cause: IRQ lines, the software bits, the exception fields
    flags,  \* the bit fields of gDZ11
    used,   \* rxBytesUsed of the console line
    ctrlC,  \* register C of the clock
    pc,     \* pc[t]: what thread t does next
    reg,    \* reg[t]: the word of bits thread t has loaded
    num,    \* num[t]: the count thread t has loaded
    todo    \* todo[t]: the updates of cpu.cause that thread t has to make

raceVars == <<cause, flags, used, ctrlC, pc, reg, num, todo>>
mem == <<cause, flags, used, ctrlC>>

Thread == {"console", "timer", "cpu"}

Irq == {"UART", "RTC"}
FlagBits == {"MSE", "RIE", "RDONE"}

(* The timer interrupts the loop: until it returns, the loop stands still. *)
Runs(t) == t = "console" => pc["timer"] = "idle"

At(t, here) == pc[t] = here /\ Runs(t)

Goto(t, there) == pc' = [pc EXCEPT ![t] = there]

Load(t, here, word, there) ==
    /\ At(t, here)
    /\ reg' = [reg EXCEPT ![t] = word]
    /\ Goto(t, there)
    /\ UNCHANGED <<mem, num, todo>>

LoadCount(t, here, there) ==
    /\ At(t, here)
    /\ num' = [num EXCEPT ![t] = used]
    /\ Goto(t, there)
    /\ UNCHANGED <<mem, reg, todo>>

(* A store ends the life of the word that was loaded for it. *)
Forget(t) == reg' = [reg EXCEPT ![t] = {}]

StoreFlags(t, here, word, there) ==
    /\ At(t, here)
    /\ flags' = word
    /\ Forget(t)
    /\ Goto(t, there)
    /\ UNCHANGED <<cause, used, ctrlC, num, todo>>

StoreUsed(t, here, n, there) ==
    /\ At(t, here)
    /\ used' = n % (ByteMax + 1)
    /\ num' = [num EXCEPT ![t] = 0]
    /\ Goto(t, there)
    /\ UNCHANGED <<cause, flags, ctrlC, reg, todo>>

(* A step that reads shared memory once and branches on it. *)
Branch(t, here, test, yes, no) ==
    /\ At(t, here)
    /\ Goto(t, IF test THEN yes ELSE no)
    /\ UNCHANGED <<mem, reg, num, todo>>

(* An update of cpu.cause: the bits it takes away and those it adds. *)
Raise(b) == [take |-> {}, add |-> {b}]
Lower(b) == [take |-> {b}, add |-> {}]

(* An assignment to a field that only core 1 assigns: BD, ExcCode, IP0 and *)
(* IP1.  The fields are not kept, but the rest of the word is stored as it *)
(* was loaded.                                                             *)
Own == [take |-> {}, add |-> {}]

(* Thread t goes on to update cpu.cause. *)
Updates(t, us) == /\ todo' = [todo EXCEPT ![t] = us]
                  /\ Goto(t, "cause")
-----------------------------------------------------------------------------
(* cpuIrq, and every assignment to a field of cpu.cause. *)
CauseLoad(t) == Load(t, "cause", cause, "cause2")

CauseStore(t) ==
    /\ At(t, "cause2")
    /\ cause' = (reg[t] \ Head(todo[t]).take) \cup Head(todo[t]).add
    /\ todo' = [todo EXCEPT ![t] = Tail(@)]
    /\ Forget(t)
    /\ Goto(t, IF Len(todo[t]) > 1 THEN "cause" ELSE "idle")
    /\ UNCHANGED <<flags, used, ctrlC, num>>

(* dz11PrvRecalc: RDONE is taken away and set again if the line has        *)
(* characters, then the level of the interrupt is read off the bits.       *)
RecalcEnabled(t) ==
    /\ At(t, "recalc")
    /\ IF "MSE" \in flags
         THEN Goto(t, "clear") /\ UNCHANGED todo
         ELSE Updates(t, <<Lower("UART")>>)
    /\ UNCHANGED <<mem, reg, num>>

RecalcClear(t) == Load(t, "clear", flags, "clear2")
RecalcClear2(t) == StoreFlags(t, "clear2", reg[t] \ {"RDONE"}, "look")
RecalcLook(t) == Branch(t, "look", used > 0, "set", "level")
RecalcSet(t) == Load(t, "set", flags, "set2")
RecalcSet2(t) == StoreFlags(t, "set2", reg[t] \cup {"RDONE"}, "level")

RecalcLevel(t) ==
    /\ At(t, "level")
    /\ Updates(t, <<IF {"RIE", "RDONE"} \subseteq flags THEN Raise("UART")
                                                        ELSE Lower("UART")>>)
    /\ UNCHANGED <<mem, reg, num>>

dz11PrvRecalc(t) ==
    \/ RecalcEnabled(t) \/ RecalcClear(t) \/ RecalcClear2(t) \/ RecalcLook(t)
    \/ RecalcSet(t) \/ RecalcSet2(t) \/ RecalcLevel(t)
-----------------------------------------------------------------------------
(* dz11charRx on the console line, called by the loop of core 0. *)
CharArrives == /\ "type" \in Does
               /\ Branch("console", "idle", "MSE" \in flags, "room", "idle")

(* Mutant: the test for a full buffer is one off. *)
CharRoom_late == Branch("console", "room", used > RingSize, "recalc", "take")

CharRoom == Branch("console", "room", used >= RingSize, "recalc", "take")
CharTake == LoadCount("console", "take", "take2")
CharTake2 == StoreUsed("console", "take2", num["console"] + 1, "recalc")

CharReceived == CharArrives \/ CharRoom \/ CharTake \/ CharTake2
-----------------------------------------------------------------------------
(* ds1287step, for a machine that has enabled the periodic interrupt: PF   *)
(* and IRQF are set one after the other, then the interrupt is raised.     *)
StepPF == /\ "tick" \in Does
          /\ Load("timer", "idle", ctrlC, "pf2")
StepPF2 == /\ At("timer", "pf2")
           /\ ctrlC' = reg["timer"] \cup {"PF"}
           /\ Forget("timer")
           /\ Goto("timer", "irqf")
           /\ UNCHANGED <<cause, flags, used, num, todo>>

StepIRQF == Load("timer", "irqf", ctrlC, "irqf2")

(* Mutant: the interrupt is raised only when IRQF was not set already. *)
StepIRQF2_once ==
    /\ At("timer", "irqf2")
    /\ ctrlC' = reg["timer"] \cup {"IRQF"}
    /\ Forget("timer")
    /\ IF "IRQF" \in reg["timer"]
         THEN Goto("timer", "idle") /\ UNCHANGED todo
         ELSE Updates("timer", <<Raise("RTC")>>)
    /\ UNCHANGED <<cause, flags, used, num>>

StepIRQF2 == /\ At("timer", "irqf2")
             /\ ctrlC' = reg["timer"] \cup {"IRQF"}
             /\ Forget("timer")
             /\ Updates("timer", <<Raise("RTC")>>)
             /\ UNCHANGED <<cause, flags, used, num>>

ds1287step == StepPF \/ StepPF2 \/ StepIRQF \/ StepIRQF2
-----------------------------------------------------------------------------
(* Core 1 begins a call. *)
Begin(work, there) == /\ work \in Does
                      /\ Branch("cpu", "idle", TRUE, there, "idle")

(* A read of RBUF: dz11prvRx, then the recalc. *)
RbufLook == Branch("cpu", "rbuf", "MSE" \in flags /\ used > 0, "drop", "recalc")
RbufDrop == LoadCount("cpu", "drop", "drop2")
RbufDrop2 == StoreUsed("cpu", "drop2", num["cpu"] - 1, "recalc")

BufferRead == Begin("rbuf", "rbuf") \/ RbufLook \/ RbufDrop \/ RbufDrop2

(* A read of the CSR changes nothing before its recalc. *)
StatusRead == Begin("status", "recalc")

(* A write of the CSR assigns the control bits one after the other. *)
CsrMSE == Load("cpu", "mse", flags, "mse2")
CsrMSE2 == StoreFlags("cpu", "mse2", reg["cpu"] \cup {"MSE"}, "rie")
CsrRIE == Load("cpu", "rie", flags, "rie2")
CsrRIE2(on) == StoreFlags("cpu", "rie2",
                          IF on THEN reg["cpu"] \cup {"RIE"}
                                ELSE reg["cpu"] \ {"RIE"}, "recalc")

ControlWrite == \/ Begin("csr", "mse") \/ CsrMSE \/ CsrMSE2 \/ CsrRIE
                \/ \E on \in IrqEnables : CsrRIE2(on)

(* dz11prvReset: memset reaches the lines before the bit fields. *)
ResetLine == /\ "clear" \in Does
             /\ StoreUsed("cpu", "idle", 0, "memset")
ResetFlags == StoreFlags("cpu", "memset", {}, "recalc")

dz11prvReset == ResetLine \/ ResetFlags

(* A read of register C of the clock: the acknowledgement. *)
AckRead == Begin("ack", "zero")
AckZero == /\ At("cpu", "zero")
           /\ ctrlC' = {}
           /\ Updates("cpu", <<Lower("RTC")>>)
           /\ UNCHANGED <<cause, flags, used, reg, num>>

(* Work that is only updates of cpu.cause: cpuPrvTakeException, and MTC0. *)
Assigns(work, us) == /\ work \in Does
                     /\ At("cpu", "idle")
                     /\ Updates("cpu", us)
                     /\ UNCHANGED <<mem, reg, num>>

cpuPrvTakeException == Assigns("exception", <<Own, Own>>)

Mtc0Cause == Assigns("mtc0", <<Own>>)
-----------------------------------------------------------------------------
(* The devices are set up and the machine has switched the console line on *)
(* and enabled the periodic interrupt of the clock.                        *)
RaceInit == /\ cause = {}
            /\ flags = {"MSE"}
            /\ used = 0
            /\ ctrlC = {}
            /\ pc = [t \in Thread |-> "idle"]
            /\ reg = [t \in Thread |-> {}]
            /\ num = [t \in Thread |-> 0]
            /\ todo = [t \in Thread |-> <<>>]

Console == CharReceived \/ dz11PrvRecalc("console")
                        \/ CauseLoad("console") \/ CauseStore("console")
Timer == ds1287step \/ CauseLoad("timer") \/ CauseStore("timer")
Cpu == \/ BufferRead \/ StatusRead \/ ControlWrite \/ dz11prvReset
       \/ dz11PrvRecalc("cpu")
       \/ AckRead \/ AckZero
       \/ cpuPrvTakeException \/ Mtc0Cause
       \/ CauseLoad("cpu") \/ CauseStore("cpu")

RaceNext == Console \/ Timer \/ Cpu

RaceSpec == RaceInit /\ [][RaceNext]_raceVars

(* The alarm behind the repeating timer never stops, and its callback runs *)
(* to its end.  Nothing else has to happen.                                *)
FairSpec == RaceSpec /\ WF_raceVars(Timer)
-----------------------------------------------------------------------------
(* The count of a ring that two cores change without a lock can lose       *)
(* updates, but it never leaves 0 .. UART_RX_BUF_SZ: it does not wrap      *)
(* below zero when core 1 takes the last character while core 0 stores a   *)
(* count it loaded before (dz11.c:169-179, 216-219).                       *)
UsedInBounds == used \in 0 .. RingSize

(* An interrupt of the clock that a stale store of another thread wipes    *)
(* out is made up for by a later tick, though nobody ever acknowledges the *)
(* first one: ds1287step raises it again whatever register C holds         *)
(* (ds1287.c:230-235, 299-303).                                            *)
TicksGetThrough == []<>("RTC" \in cause)
=============================================================================
