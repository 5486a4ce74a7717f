------------------------------- MODULE DS1287 -------------------------------
(***************************************************************************)
(* The clock chip of the emulated machine (emulator/rtc/ds1287.c): the     *)
(* register accesses of core 1 and ds1287step, which the repeating timer   *)
(* of core 0 calls.  A call is one step; module IrqRace takes the calls    *)
(* apart.                                                                  *)
(*                                                                         *)
(* Control registers are decoded: ctrlB and ctrlC are the sets of their    *)
(* bits, and of ctrlA there is the period of the periodic interrupt.       *)
(* UIP is not modelled: it is set and taken away within one call.          *)
(***************************************************************************)
EXTENDS Integers

CONSTANTS
    SecondsPerMinute, MinutesPerHour, HoursPerDay, \* 60, 60, 24
    YearsPerCentury, \* 100
    TicksPerSecond,  \* 8192
    Bytes,           \* the values the machine writes
    Written,         \* the time and alarm registers it writes
    CtrlBWords,      \* the control words it writes, as sets of bits
    Periods,         \* the periods it selects, in ticks; 0 is none
    Beyond           \* what may lie before and after the tables of days

Byte == 0 .. 255
TimeReg == {"sec", "min", "hr", "day", "date", "month", "year"}
AlarmReg == {"almSec", "almMin", "almHr"}
Reg == TimeReg \cup AlarmReg
CtrlB == {"SET", "PIE", "AIE", "UIE", "DM", "24"}

ASSUME DS1287Assumption ==
    /\ SecondsPerMinute \in 1 .. 60
    /\ MinutesPerHour \in 1 .. 60
    /\ HoursPerDay \in 1 .. 24
    /\ YearsPerCentury \in 2 .. 100
    /\ TicksPerSecond \in Nat \ {0, 1}
    /\ Bytes \subseteq Byte
    /\ Written \subseteq Reg
    /\ CtrlBWords \subseteq SUBSET CtrlB
    /\ Periods \subseteq Nat
    /\ Beyond \subseteq Byte

VARIABLES
    gRTC,     \* the time and alarm registers
    ctrlB,    \* control bits
    ctrlC,    \* flags
    period,   \* ticks from one periodic interrupt to the next
    tickCtr,  \* ticks in this second
    irq,      \* bit SOC_IRQNO_RTC of cpu.cause
    shown     \* what the machine wrote or read last

clockVars == <<gRTC, ctrlB, ctrlC, period, tickCtr, irq, shown>>

Nothing == [kind |-> "nothing"]
-----------------------------------------------------------------------------
minVals == [r \in Reg |-> IF r \in {"day", "date", "month"} THEN 1 ELSE 0]

maxVals == [r \in Reg |->
              CASE r \in {"sec", "almSec", "min", "almMin"} -> 59
                [] r \in {"hr", "almHr"} -> 23
                [] r = "day" -> 7
                [] r = "date" -> 31
                [] r = "month" -> 12
                [] r = "year" -> 99]

(* Binary coded decimal.  FromBcd takes any byte, as the C code does. *)
FromBcd(v) == (v \div 16) * 10 + (v % 16)
ToBcd(v) == (v \div 10) * 16 + (v % 10)

Clamp(low, v, high) == IF v < low THEN low ELSE IF v > high THEN high ELSE v

(* ds1286prvPossiblyBcdRegOp, write: the clamp comes before the conversion. *)
FromMachine(r, v) ==
    LET c == Clamp(minVals[r], v, maxVals[r])
    IN  IF "DM" \in ctrlB THEN c ELSE FromBcd(c)

(* ds1286prvPossiblyBcdRegOp, read. *)
ToMachine(v) ==
    IF "DM" \in ctrlB THEN v ELSE ToBcd(v) % 256

(* ds1287prvHoursProcessWrite. *)
HourFromMachine(v) ==
    LET pm == IF v >= 128 THEN 12 ELSE 0
    IN  Clamp(0,
              CASE "DM" \notin ctrlB /\ "24" \notin ctrlB ->
                      FromBcd(v % 32) + pm - 1
                [] "DM" \notin ctrlB /\ "24" \in ctrlB ->
                      FromBcd(v % 64) - 1
                [] "DM" \in ctrlB /\ "24" \notin ctrlB ->
                      (v % 16) + pm - 1
                [] OTHER -> v % 32,
              23)

(* Mutant: noon is taken for the last hour of the morning. *)
HourToMachine_noon(v) ==
    LET pm == IF v > 12 THEN 128 ELSE 0
        h  == (v % 12) + 1
    IN  CASE "DM" \notin ctrlB /\ "24" \notin ctrlB ->
                pm + ToBcd(h)
          [] "DM" \notin ctrlB /\ "24" \in ctrlB -> ToBcd(v)
          [] "DM" \in ctrlB /\ "24" \notin ctrlB -> pm + h
          [] OTHER -> v

(* ds1287prvHoursProcessRead. *)
HourToMachine(v) ==
    LET pm == IF v >= 12 THEN 128 ELSE 0
        h  == (v % 12) + 1
    IN  CASE "DM" \notin ctrlB /\ "24" \notin ctrlB ->
                pm + ToBcd(h)
          [] "DM" \notin ctrlB /\ "24" \in ctrlB -> ToBcd(v)
          [] "DM" \in ctrlB /\ "24" \notin ctrlB -> pm + h
          [] OTHER -> v

IsHour(r) == r \in {"hr", "almHr"}

(* What the machine reads in register r. *)
Value(r) == IF IsHour(r) THEN HourToMachine(gRTC[r]) ELSE ToMachine(gRTC[r])
-----------------------------------------------------------------------------
isLeap(year) ==
    LET y == 1900 + year
    IN  y % 3 = 0 /\ (y % 100 # 0 \/ y % 400 = 0)

DaysIn(month, year) ==
    CASE month = 2 -> IF isLeap(year) THEN 29 ELSE 28
      [] month \in {4, 6, 9, 11} -> 30
      [] OTHER -> 31

(* The table is read at month - 1, whatever month is. *)
DaysPerMonth(month, year) ==
    IF month \in 1 .. 12 THEN {DaysIn(month, year)} ELSE Beyond

Inc(v) == (v + 1) % 256

(* The year whose number the code replaces by 0: 99, a year too early. *)
YearsPerCycle == YearsPerCentury - 1

(* Mutant: the increment comes before the comparison. *)
MonthOver_early(date, days) == date + 1 = days

(* The day that ends is the last of a month of so many days. *)
MonthOver(date, days) == date = days

(* One second passes.  Every carry is a test for equality. *)
Advance(t, days) ==
    LET minute == t.sec + 1 = SecondsPerMinute
        hour   == minute /\ t.min + 1 = MinutesPerHour
        day    == hour /\ t.hr + 1 = HoursPerDay
        month  == day /\ MonthOver(t.date, days)
        year   == month /\ t.month + 1 = 13
    IN  [t EXCEPT
           !.sec   = IF minute THEN 0 ELSE Inc(@),
           !.min   = IF hour THEN 0 ELSE IF minute THEN Inc(@) ELSE @,
           !.hr    = IF day THEN 0 ELSE IF hour THEN Inc(@) ELSE @,
           !.day   = IF ~ day THEN @ ELSE IF @ + 1 = 8 THEN 1 ELSE Inc(@),
           !.date  = IF month THEN 1 ELSE IF day THEN Inc(@) ELSE @,
           !.month = IF year THEN 1 ELSE IF month THEN Inc(@) ELSE @,
           !.year  = IF ~ year THEN @
                     ELSE IF @ + 1 = YearsPerCycle THEN 0 ELSE Inc(@)]

AtAlarm(t) == t.sec = t.almSec /\ t.min = t.almMin /\ t.hr = t.almHr

(* The interrupt enable that goes with a flag. *)
EnableOf == [PF |-> "PIE", AF |-> "AIE", UF |-> "UIE"]

(* ds1287step(1). *)
ds1287step ==
    LET next   == tickCtr + 1
        update == next % TicksPerSecond < tickCtr
        counts == update /\ "SET" \notin ctrlB
    IN  /\ tickCtr' = next % TicksPerSecond
        /\ IF counts
             THEN \E days \in DaysPerMonth(gRTC.month, gRTC.year) :
                     gRTC' = Advance(gRTC, days)
             ELSE UNCHANGED gRTC
        /\ LET flags == {f \in {"PF"} : period # 0 /\
                              tickCtr \div period # next \div period}
                        \cup (IF counts THEN {"UF"} ELSE {})
                        \cup {f \in {"AF"} : update /\ AtAlarm(gRTC')}
               raise == \E f \in flags : EnableOf[f] \in ctrlB
           IN  /\ ctrlC' = ctrlC \cup flags
                                 \cup (IF raise THEN {"IRQF"} ELSE {})
               /\ irq' = (irq \/ raise)
        /\ shown' = Nothing
        /\ UNCHANGED <<ctrlB, period>>
-----------------------------------------------------------------------------
WriteTime(r, v) ==
    /\ gRTC' = [gRTC EXCEPT ![r] = IF IsHour(r) THEN HourFromMachine(v)
                                                ELSE FromMachine(r, v)]
    /\ shown' = [kind |-> "wrote", reg |-> r, val |-> v]
    /\ UNCHANGED <<ctrlB, ctrlC, period, tickCtr, irq>>

(* Mutant: the acknowledgement leaves the flags. *)
ReadC_keeps ==
    /\ irq' = FALSE
    /\ shown' = Nothing
    /\ UNCHANGED <<gRTC, ctrlB, ctrlC, period, tickCtr>>

(* Reading register C acknowledges: it clears it and lowers the interrupt. *)
ReadC == /\ ctrlC' = {}
         /\ irq' = FALSE
         /\ shown' = Nothing
         /\ UNCHANGED <<gRTC, ctrlB, period, tickCtr>>

WriteA(p) == /\ period' = p
             /\ shown' = Nothing
             /\ UNCHANGED <<gRTC, ctrlB, ctrlC, tickCtr, irq>>

WriteB(word) == /\ ctrlB' = word
                /\ shown' = Nothing
                /\ UNCHANGED <<gRTC, ctrlC, period, tickCtr, irq>>

(* ds1287init: memory the C runtime has cleared, binary 24 hour mode. *)
ClockInit == /\ gRTC = [r \in Reg |-> 0]
             /\ ctrlB = {"DM", "24"}
             /\ ctrlC = {}
             /\ period = 0
             /\ tickCtr = 0
             /\ irq = FALSE
             /\ shown = Nothing

ClockNext == \/ ds1287step
             \/ \E r \in Written, v \in Bytes : WriteTime(r, v)
             \/ ReadC
             \/ \E p \in Periods : WriteA(p)
             \/ \E word \in CtrlBWords : WriteB(word)

ClockSpec == ClockInit /\ [][ClockNext]_clockVars
-----------------------------------------------------------------------------
(* The interrupt is up exactly while register C says so: what raises it    *)
(* sets IRQF and only the read that clears IRQF lowers it                  *)
(* (ds1287.c:179-181, 299-303).                                            *)
IrqIsIRQF == irq <=> "IRQF" \in ctrlC

(* The calendar, as it is and not as the code counts it.  The year register *)
(* counts from 1900 (ds1287.c:252).                                         *)
LeapYear(year) ==
    LET y == 1900 + year
    IN  y % 4 = 0 /\ (y % 100 # 0 \/ y % 400 = 0)

MonthLength(month, year) ==
    IF month = 2 /\ LeapYear(year)
      THEN 29
      ELSE <<31, 28, 31, 30, 31, 30, 31, 31, 30, 31, 30, 31>>[month]

Valid(t) == /\ t.sec < SecondsPerMinute
            /\ t.min < MinutesPerHour
            /\ t.hr < HoursPerDay
            /\ t.day \in 1 .. 7
            /\ t.month \in 1 .. 12
            /\ t.year < YearsPerCentury
            /\ t.date \in 1 .. MonthLength(t.month, t.year)

(* Days before a year, and before a month of a year. *)
YearStart[y \in 0 .. YearsPerCentury] ==
    IF y = 0 THEN 0
             ELSE YearStart[y - 1] + (IF LeapYear(y - 1) THEN 366 ELSE 365)

MonthStart[m \in 1 .. 12] ==
    [y \in 0 .. YearsPerCentury - 1 |->
       IF m = 1 THEN 0 ELSE MonthStart[m - 1][y] + MonthLength(m - 1, y)]

DayNumber(t) == YearStart[t.year] + MonthStart[t.month][t.year] + t.date - 1

(* Seconds since the first moment of the century. *)
Moment(t) ==
    ((DayNumber(t) * HoursPerDay + t.hr) * MinutesPerHour + t.min)
        * SecondsPerMinute + t.sec

Century == YearStart[YearsPerCentury] * HoursPerDay * MinutesPerHour
                                      * SecondsPerMinute

(* u is the moment after t; the day of the week goes on at midnight. *)
Follows(u, t) ==
    /\ Valid(u)
    /\ Moment(u) = (Moment(t) + 1) % Century
    /\ u.day = IF DayNumber(u) = DayNumber(t) THEN t.day ELSE (t.day % 7) + 1

LastSecond(t) == /\ t.sec + 1 = SecondsPerMinute
                 /\ t.min + 1 = MinutesPerHour
                 /\ t.hr + 1 = HoursPerDay

(* The years that are multiples of three or of four but not of both; 1900  *)
(* is in neither rule.                                                     *)
MisjudgedYear(year) == year # 0 /\ (1900 + year) % 12 \in {3, 4, 6, 8, 9}

(* The ends of the days on which the code leaves the calendar: the last of *)
(* February in a year whose length it misjudges, and the last of the last  *)
(* two years of the century.                                               *)
LeapMissed(t) == /\ LastSecond(t)
                 /\ t.month = 2 /\ t.date \in {28, 29}
                 /\ MisjudgedYear(t.year)
CenturyMissed(t) == /\ LastSecond(t)
                    /\ t.month = 12 /\ t.date = 31
                    /\ t.year + 2 >= YearsPerCentury

Updates == Valid(gRTC) /\ gRTC' # gRTC /\ shown' = Nothing

(* Once the clock shows a moment of the calendar, each update shows the    *)
(* next one, through every carry (ds1287.c:243-285), except at the end of a *)
(* February whose length the code misjudges (255) and of years 98 and 99   *)
(* (279), where it never does.                                             *)
NextSecond ==
    [][Updates => (Follows(gRTC', gRTC) <=>
                     ~ LeapMissed(gRTC) /\ ~ CenturyMissed(gRTC))]_clockVars

Digits(v) == v % 16 < 10 /\ v \div 16 < 10

(* What a machine that keeps to the format it has selected writes. *)
InFormat(r, v) ==
    LET twelve == IsHour(r) /\ "24" \notin ctrlB
        w == IF twelve THEN v % 128 ELSE v
        n == IF "DM" \in ctrlB THEN w ELSE FromBcd(w)
    IN  /\ "DM" \in ctrlB \/ Digits(w)
        /\ IF twelve THEN n \in 1 .. 12 ELSE n \in minVals[r] .. maxVals[r]

ReadsBack == Value(shown.reg) = shown.val

WroteInFormat == shown.kind = "wrote" /\ InFormat(shown.reg, shown.val)

TwelveHours(r) == IsHour(r) /\ "24" \notin ctrlB

(* "internally our data is always binary. we change format on read/write"  *)
(* (ds1287.c:38): a value written in the selected format reads back, in    *)
(* binary, the mode the chip starts in, and for hours in twelve hour mode. *)
RoundTripBinary ==
    (WroteInFormat /\ ("DM" \in ctrlB \/ TwelveHours(shown.reg))) => ReadsBack

(* What a value written in BCD reads back as, hours of twelve apart.       *)
BcdReads(r, v) ==
    IF IsHour(r) THEN v = 0
                 ELSE v <= maxVals[r] \/ v = ToBcd(FromBcd(maxVals[r]))

(* How far that comment holds in BCD: hours of a day lose one (ds1287.c:89), *)
(* and other values are clamped to a limit meant for binary ones (59-65),  *)
(* so that they come back if and only if they do not exceed it as bytes,   *)
(* or are what it reads as.                                                *)
RoundTripBcd ==
    (WroteInFormat /\ "DM" \notin ctrlB /\ ~ TwelveHours(shown.reg)) =>
        (ReadsBack <=> BcdReads(shown.reg, shown.val))

(* What was written last in the selected format is read back, with the      *)
(* exceptions of BCD, which are as described and no fewer (ds1287.c:59-90). *)
RoundTrip == RoundTripBinary /\ RoundTripBcd
=============================================================================
