-------------------------------- MODULE DZ11 --------------------------------
(***************************************************************************)
(* The DZ11 serial controller the emulated machine sees                    *)
(* (emulator/dz11/dz11.c), one action per call: the register accesses of   *)
(* core 1 and dz11charRx, which core 0 calls for a character typed on the  *)
(* console.  Here a call is one step; module IrqRace takes the calls of    *)
(* the two cores apart.                                                    *)
(*                                                                         *)
(* gDZ11 is one record, as the C struct is, and a handler is a function    *)
(* from record to record.  Register words are decoded: a CSR word is the   *)
(* set of its control bits.                                                *)
(***************************************************************************)
EXTENDS Integers

CONSTANTS
    NumUarts,    \* EMU_NUM_UARTS
    ConsoleLine, \* the line of the console: 3
    BufSize,     \* UART_RX_BUF_SZ
    AlarmCount,  \* FIFO_ALARM_COUNT
    CounterMax,  \* what nBytesRxedSinceLastRead can hold: 255
    Char,        \* characters
    NUL,         \* the character memset leaves
    CsrWords,    \* the CSR words the machine writes, as sets of bits
    TcrWords     \* the TCR words the machine writes, as sets of lines

Line == 0 .. NumUarts - 1

Bit == {"MSE", "RIE", "SAE", "TIE", "MAINT", "CLR"}

ASSUME DZ11Assumption ==
    /\ NumUarts \in Nat \ {0}
    /\ ConsoleLine \in Line
    /\ BufSize \in Nat \ {0}
    /\ AlarmCount \in Nat \ {0}
    /\ CounterMax \in Nat \ {0}
    /\ NUL \in Char
    /\ CsrWords \subseteq SUBSET Bit
    /\ TcrWords \subseteq SUBSET Line

VARIABLES
    gDZ11,   \* the device
    irq,     \* bit SOC_IRQNO_UART of cpu.cause
    shown,   \* what the last call returned or sent
    panic    \* shldpanic: the console has been told to stop

vars == <<gDZ11, irq, shown, panic>>

LineState == [buf : [0 .. BufSize - 1 -> Char],
              rxReadPtr : 0 .. BufSize - 1,
              rxBytesUsed : 0 .. BufSize,
              nBytes : 0 .. CounterMax,
              rxOvr : BOOLEAN,
              rxEna : BOOLEAN]

Device == [line : [Line -> LineState],
           csr : SUBSET (Bit \ {"CLR"}),
           sa : BOOLEAN, rdone : BOOLEAN, trdy : BOOLEAN,
           txLine : Line, tcr : SUBSET Line]

Nothing == [kind |-> "nothing"]
-----------------------------------------------------------------------------
(* The struct after memset. *)
Cleared ==
    [line |-> [n \in Line |->
                 [buf |-> [i \in 0 .. BufSize - 1 |-> NUL], rxReadPtr |-> 0,
                  rxBytesUsed |-> 0, nBytes |-> 0,
                  rxOvr |-> FALSE, rxEna |-> FALSE]],
     csr |-> {}, sa |-> FALSE, rdone |-> FALSE, trdy |-> FALSE,
     txLine |-> 0, tcr |-> {}]

Enabled(d) == "MSE" \in d.csr

Highest(S) == CHOOSE n \in S : \A m \in S : m <= n

(* Mutant: the status bits only ever rise. *)
Recalc_sticky(d) ==
    IF ~ Enabled(d) THEN d
    ELSE [d EXCEPT
            !.rdone  = d.rdone \/ \E n \in Line : d.line[n].rxBytesUsed > 0,
            !.sa     = \E n \in Line : d.line[n].nBytes >= AlarmCount,
            !.trdy   = d.tcr # {},
            !.txLine = IF d.tcr # {} THEN Highest(d.tcr) ELSE d.txLine]

(* Mutant: the lowest line that wants to transmit is announced. *)
Recalc_low(d) ==
    IF ~ Enabled(d) THEN d
    ELSE [d EXCEPT
            !.rdone  = \E n \in Line : d.line[n].rxBytesUsed > 0,
            !.sa     = \E n \in Line : d.line[n].nBytes >= AlarmCount,
            !.trdy   = d.tcr # {},
            !.txLine = 0]

(* dz11PrvRecalc: the status bits follow the lines, from the highest down, *)
(* while the device is on; switched off they keep their last values.       *)
Recalc(d) ==
    IF ~ Enabled(d) THEN d
    ELSE [d EXCEPT
            !.rdone  = \E n \in Line : d.line[n].rxBytesUsed > 0,
            !.sa     = \E n \in Line : d.line[n].nBytes >= AlarmCount,
            !.trdy   = d.tcr # {},
            !.txLine = IF d.tcr # {} THEN Highest(d.tcr) ELSE d.txLine]

(* The level dz11PrvRecalc gives to the interrupt, from the bits it set. *)
Level(d) ==
    /\ Enabled(d)
    /\ \/ "RIE" \in d.csr /\ (IF "SAE" \in d.csr THEN d.sa ELSE d.rdone)
       \/ "TIE" \in d.csr /\ d.trdy

(* Mutant: the slot a character goes to is one too far. *)
Put_late(l, chr) ==
    [l EXCEPT !.buf[(l.rxReadPtr + l.rxBytesUsed + 1) % BufSize] = chr,
              !.rxBytesUsed = l.rxBytesUsed + 1]

Put(l, chr) ==
    [l EXCEPT !.buf[(l.rxReadPtr + l.rxBytesUsed) % BufSize] = chr,
              !.rxBytesUsed = l.rxBytesUsed + 1]

(* Mutant: the 8 bit counter wraps. *)
Count_wraps(n) == (n + 1) % (CounterMax + 1)

Count(n) == IF n = CounterMax THEN n ELSE n + 1

(* dz11charRx up to its recalc: a line takes what it has room for, counts  *)
(* every character and the count stays at its maximum.                     *)
CharRx(d, n, chr) ==
    LET l == d.line[n]
        m == IF l.rxBytesUsed >= BufSize THEN [l EXCEPT !.rxOvr = TRUE]
                                         ELSE Put(l, chr)
    IN  [d EXCEPT !.line[n] = [m EXCEPT !.nBytes = Count(l.nBytes)]]

Listens(d, n) == Enabled(d) /\ d.line[n].rxEna

(* A call of dz11charRx, the loopback of dz11prvTx included. *)
Received(d, n, chr) == IF Listens(d, n) THEN Recalc(CharRx(d, n, chr)) ELSE d

(* What taking a character from a line leaves of it. *)
Drop(l) ==
    [l EXCEPT !.rxOvr = FALSE,
              !.rxReadPtr = IF l.rxReadPtr + 1 = BufSize THEN 0
                                                         ELSE l.rxReadPtr + 1,
              !.rxBytesUsed = l.rxBytesUsed - 1,
              !.nBytes = 0]

Waiting(d) == {n \in Line : d.line[n].rxBytesUsed > 0}
-----------------------------------------------------------------------------
Becomes(d) == gDZ11' = d /\ irq' = Level(d)

(* Core 0 hands over a character of the console. *)
dz11charRx(chr) ==
    /\ IF Listens(gDZ11, ConsoleLine)
         THEN Becomes(Received(gDZ11, ConsoleLine, chr))
         ELSE UNCHANGED <<gDZ11, irq>>
    /\ shown' = [kind |-> "typed", line |-> ConsoleLine, chr |-> chr]
    /\ UNCHANGED panic

(* CSR_CLR clears the whole device, anything else sets the control bits. *)
WriteCSR(word) ==
    /\ Becomes(Recalc(IF "CLR" \in word THEN Cleared
                                        ELSE [gDZ11 EXCEPT !.csr = word]))
    /\ shown' = Nothing
    /\ UNCHANGED panic

(* A line number the device does not have fails the access: no recalc. *)
WriteLPR(n, on) ==
    /\ IF n \in Line
         THEN Becomes(Recalc([gDZ11 EXCEPT !.line[n].rxEna = on]))
         ELSE UNCHANGED <<gDZ11, irq>>
    /\ shown' = Nothing
    /\ UNCHANGED panic

WriteTCR(lines) ==
    /\ Becomes(Recalc([gDZ11 EXCEPT !.tcr = lines]))
    /\ shown' = Nothing
    /\ UNCHANGED panic

(* dz11prvTx complains but transmits all the same.  A character that loops *)
(* back is received before TRDY is taken away and recalculated.            *)
WriteTDR(chr) ==
    LET n == gDZ11.txLine
        d == IF "MAINT" \in gDZ11.csr THEN Received(gDZ11, n, chr) ELSE gDZ11
    IN  /\ panic' = (panic \/ ~ Enabled(gDZ11) \/ ~ gDZ11.trdy)
        /\ shown' = [kind |-> "sent", line |-> n, chr |-> chr]
        /\ Becomes(Recalc([d EXCEPT !.trdy = FALSE]))

(* dz11prvRx serves the highest line that holds a character. *)
ReadRBUF ==
    LET n == Highest(Waiting(gDZ11))
        l == gDZ11.line[n]
    IN  /\ IF Enabled(gDZ11) /\ Waiting(gDZ11) # {}
             THEN /\ shown' = [kind |-> "rbuf", line |-> n, ovr |-> l.rxOvr,
                               chr |-> l.buf[l.rxReadPtr]]
                  /\ Becomes(Recalc([gDZ11 EXCEPT !.line[n] = Drop(l)]))
             ELSE /\ shown' = [kind |-> "empty"]
                  /\ Becomes(Recalc(gDZ11))
        /\ UNCHANGED panic

(* The calculated bits of the CSR. *)
ReadCSR ==
    /\ shown' = [kind |-> "csr", rdone |-> gDZ11.rdone, sa |-> gDZ11.sa,
                 tx |-> IF gDZ11.trdy THEN {gDZ11.txLine} ELSE {}]
    /\ Becomes(Recalc(gDZ11))
    /\ UNCHANGED panic

(* dz11init. *)
Init ==
    /\ gDZ11 = [Cleared EXCEPT !.csr = {"MSE"}]
    /\ irq = FALSE
    /\ shown = Nothing
    /\ panic = FALSE

Next ==
    \/ \E chr \in Char : dz11charRx(chr)
    \/ \E word \in CsrWords : WriteCSR(word)
    \/ \E n \in Line \cup {NumUarts}, on \in BOOLEAN : WriteLPR(n, on)
    \/ \E lines \in TcrWords : WriteTCR(lines)
    \/ \E chr \in Char : WriteTDR(chr)
    \/ ReadRBUF
    \/ ReadCSR

Spec == Init /\ [][Next]_vars
-----------------------------------------------------------------------------
(* Whatever was called, the interrupt is up exactly when the lines give    *)
(* reason for it: every handler that changes a line, the control bits or   *)
(* the transmit lines ends in a recalc (dz11.c:133, 222, 262, 310).        *)
IrqFollowsLines ==
    irq <=> /\ Enabled(gDZ11)
            /\ \/ /\ "RIE" \in gDZ11.csr
                  /\ \E n \in Line :
                        IF "SAE" \in gDZ11.csr
                          THEN gDZ11.line[n].nBytes >= AlarmCount
                          ELSE gDZ11.line[n].rxBytesUsed > 0
               \/ "TIE" \in gDZ11.csr /\ gDZ11.tcr # {}

(* A character sent while TRDY is up goes to a line the machine has        *)
(* enabled for transmission, whatever was written between the CSR that     *)
(* named the line and the TDR (dz11.c:113-119, 148).                       *)
SentWhereEnabled ==
    [][(shown'.kind = "sent" /\ Enabled(gDZ11) /\ gDZ11.trdy) =>
          shown'.line \in gDZ11.tcr]_vars

(* A character that arrives never lowers the interrupt: the count behind   *)
(* the silo alarm must not wrap (dz11.c:220, "do not overflow").           *)
TypingNeverLowers ==
    [][(shown'.kind = "typed" /\ irq) => irq']_vars

Queue(l) == [i \in 1 .. l.rxBytesUsed |->
               l.buf[(l.rxReadPtr + i - 1) % BufSize]]

S == INSTANCE Silo WITH
    Capacity <- BufSize,
    queue  <- [n \in Line |-> Queue(gDZ11.line[n])],
    missed <- {n \in Line : gDZ11.line[n].rxOvr},
    on     <- Enabled(gDZ11),
    ears   <- {n \in Line : gDZ11.line[n].rxEna},
    loop   <- "MAINT" \in gDZ11.csr,
    shown  <- IF shown.kind = "csr" THEN Nothing ELSE shown

(* The ring buffers are queues: order is kept across the wrap, lines are   *)
(* served from the highest, and each loss is reported (dz11.c:167-187,     *)
(* 216-219).                                                               *)
ImplementsSilo == S!Spec
=============================================================================
