------------------------------ MODULE MCDS1287 ------------------------------
(* Instances of DS1287 for TLC. *)
EXTENDS DS1287

CONSTANT Starts  \* the times the machine has set before a run begins

(* The ends of every range and of every digit, in binary and in BCD. *)
EdgeBytes == {0, 1, 9, 10, 11, 12, 13, 16, 18, 23, 24, 31, 32, 35, 49, 59, 60,
              89, 129, 139, 140, 145, 146, 255}
Ends == {0, 31, 255}

(* Every moment of the calendar, the alarm at the first. *)
Moments ==
    {t \in [sec : 0 .. SecondsPerMinute - 1, min : 0 .. MinutesPerHour - 1,
            hr : 0 .. HoursPerDay - 1, day : 1 .. 7, date : 1 .. 31,
            month : 1 .. 12, year : 0 .. YearsPerCentury - 1,
            almSec : {0}, almMin : {0}, almHr : {0}] : Valid(t)}

(* The first of January, at the alarm. *)
NewYear == {[r \in Reg |-> IF r \in {"day", "date", "month"} THEN 1 ELSE 0]}

(* And the clock as the machine finds it: month 0 and date 0. *)
EveryStart == Moments \cup {[r \in Reg |-> 0]}

RunningWords == {{"AIE", "UIE", "DM", "24"}}
StoppedWords == {{"SET", "PIE"} \cup w : w \in SUBSET {"DM", "24"}}
EveryWord == RunningWords \cup StoppedWords

Stopped == "SET" \in ctrlB

(* The machine has selected a format, and set the clock or stopped it. *)
SetInit == /\ gRTC \in Starts
           /\ ctrlB \in CtrlBWords
           /\ ~ Stopped \/ gRTC \in NewYear
           /\ ctrlC = {}
           /\ period = 0
           /\ tickCtr = 0
           /\ irq = FALSE
           /\ shown = Nothing

(* Bound: a clock that runs is left alone, a clock that is stopped stays    *)
(* stopped, and a clock that was set and has left the calendar is followed  *)
(* no further.  The format of a byte and the calendar do not meet.          *)
Kept == IF Stopped
          THEN "SET" \in ctrlB'
          ELSE /\ ctrlB' = ctrlB /\ period' = 0 /\ shown' = Nothing
               /\ gRTC' # gRTC => Valid(gRTC) \/ gRTC.month = 0

SetSpec == SetInit /\ [][ClockNext /\ Kept]_clockVars
=============================================================================
