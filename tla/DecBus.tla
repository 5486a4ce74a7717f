------------------------------- MODULE DecBus -------------------------------
(***************************************************************************)
(* The registers of the DEC bus (emulator/bus/decBus.c): the CSR and the   *)
(* address of the last bus error.  The CSR is the set of its bits; of a    *)
(* region only the first word answers.                                     *)
(***************************************************************************)
EXTENDS Integers

CONSTANTS Address, Words  \* addresses; what the machine writes to the CSR

VARIABLES mBusErrorAddr, mBusCsr

CsrBits == {512, 1024, 2048, 8192, 16384}

DecInit == mBusErrorAddr = 0 /\ mBusCsr = {2048}

(* A write of two bytes or more copies bits 13 and 14.  Of the others a bit *)
(* stays if it is written again, 9 and 10 never: in "&=~ 0x0600 & written" *)
(* the complement is that of 0x0600 alone.                                 *)
WriteCsr(size, word) ==
    mBusCsr' = IF size = 1 THEN mBusCsr
               ELSE ((mBusCsr \cap word) \ {512, 1024, 8192, 16384})
                        \cup ({8192, 16384} \cap word)

decReportBusErrorAddr(pa) == mBusErrorAddr' = pa
=============================================================================
