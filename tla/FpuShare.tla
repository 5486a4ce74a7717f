------------------------------ MODULE FpuShare ------------------------------
(***************************************************************************)
(* Processes that take turns with the floating point unit, as cpuCycle     *)
(* hands it their instructions (emulator/cpu/cpu.c: COP1, LWC1, SWC1, LDC1 *)
(* and SDC1), each allowed by the bit CU1 of Status.                       *)
(*                                                                         *)
(* The kernel is not a part of this repository.  It is assumed to switch   *)
(* the unit lazily: it clears CU1 for a process whose registers the unit   *)
(* does not hold, and on the exception saves them for their owner and      *)
(* loads those of the process, with the instructions of the same unit; the *)
(* copy it has loaded it forgets.                                          *)
(***************************************************************************)
EXTENDS Fpu

CONSTANTS Proc,         \* processes
          Instrs,       \* the instructions each executes
          Words,        \* what they move to registers of the unit
          ControlWords  \* and to its control register

ASSUME FpuShareAssumption ==
    /\ Pairs \in Nat \ {0}
    /\ Zero \in Val
    /\ Single \in [Val -> Number] /\ Double \in [Val \X Val -> Number]
    /\ "nobody" \notin Proc
    /\ Words \subseteq Val /\ ControlWords \subseteq Fcr

VARIABLES fpu,      \* the unit
          cu1,      \* CU1 of Status
          running,  \* the process that runs
          owner,    \* the process whose registers the unit holds
          saved,    \* what the kernel has saved of the others
          shown,    \* the process that had an instruction done, and its outcome
          panic     \* the kernel itself took an exception

vars == <<fpu, cu1, running, owner, saved, shown, panic>>

Nobody == "nobody"
Inputs(i) == CASE i.op = "CTC" -> ControlWords
               [] i.op = "MTC" -> Words
               [] OTHER -> {Zero}
Quiet == [proc |-> Nobody, set |-> FALSE, ret |-> "none", r |-> Nothing]
-----------------------------------------------------------------------------
(* Mutant: a store needs no permission. *)
Usable_stores(kind) == cu1 \/ kind = "store"

(* cpuPrvCopAccess(1), which every kind of instruction asks first. *)
Usable(kind) == cu1

Runs(kind) == ~ panic /\ Usable(kind)

Shows(set, ret, r) ==
    shown' = [proc |-> running, set |-> set, ret |-> ret, r |-> r]

(* COP1.  A trap of the unit and an instruction it does not know are both  *)
(* reserved instructions to the kernel, which sends the process a signal.  *)
Cop1 ==
    /\ Runs("op")
    /\ \E i \in Instrs[running] : \E x \in Inputs(i) : \E o \in fpuOp(i, x, fpu) :
          /\ fpu' = o.fpu
          /\ Shows(i.op = "CTC", o.ret, o.r)
    /\ UNCHANGED <<cu1, running, owner, saved, panic>>

(* LWC1 and LDC1, with what memory holds. *)
LoadC1 ==
    /\ Runs("load")
    /\ \E n \in FReg, fmt \in {"S", "D"} : fpu' \in Given(fpu, fmt, n, Number)
    /\ Shows(FALSE, "done", Nothing)
    /\ UNCHANGED <<cu1, running, owner, saved, panic>>

(* SWC1 and SDC1. *)
StoreC1 ==
    /\ Runs("store")
    /\ \E n \in FReg, fmt \in {"S", "D"} :
          Shows(FALSE, "done", OfWords(Held(fpu, fmt, n)))
    /\ UNCHANGED <<fpu, cu1, running, owner, saved, panic>>

(* An access that faults does nothing to the unit. *)
FaultC1 == /\ Runs("load")
           /\ shown' = Quiet
           /\ UNCHANGED <<fpu, cu1, running, owner, saved, panic>>
-----------------------------------------------------------------------------
(* Another process gets the processor. *)
Switch == /\ ~ panic
          /\ running' \in Proc \ {running}
          /\ cu1' = (owner = running')
          /\ shown' = Quiet
          /\ UNCHANGED <<fpu, owner, saved, panic>>

ReadControl == [op |-> "CFC", s |-> 31]
WriteControl == [op |-> "CTC", s |-> 31]

(* The kernel moves the control register out before the registers, and the *)
(* other way in; it dies of an exception of its own.                       *)
Acquire ==
    /\ ~ panic /\ ~ cu1
    /\ cu1' = TRUE
    /\ shown' = Quiet
    /\ \E out \in IF owner = Nobody THEN {Returns("done", Nothing, fpu)}
                                    ELSE fpuOp(ReadControl, {}, fpu) :
       \E in \in fpuOp(WriteControl, saved[running].fcr,
                       [out.fpu EXCEPT !.f = saved[running].f]) :
          IF "trap" \in {out.ret, in.ret}
            THEN /\ panic' = TRUE
                 /\ fpu' = out.fpu
                 /\ UNCHANGED <<owner, saved>>
            ELSE /\ fpu' = in.fpu
                 /\ owner' = running
                 /\ saved' = [r \in Proc |->
                                 CASE r = owner -> [f |-> out.fpu.f,
                                                    fcr |-> out.r.fcr]
                                   [] r = running -> Cleared
                                   [] OTHER -> saved[r]]
                 /\ UNCHANGED panic
    /\ UNCHANGED running

Init == /\ fpu = Cleared
        /\ cu1 = FALSE
        /\ running \in Proc
        /\ owner = Nobody
        /\ saved = [p \in Proc |-> Cleared]
        /\ shown = Quiet
        /\ panic = FALSE

Next == Cop1 \/ LoadC1 \/ StoreC1 \/ FaultC1 \/ Switch \/ Acquire

Spec == Init /\ [][Next]_vars
-----------------------------------------------------------------------------
(* The unit and what is saved of it are words and a control register; no   *)
(* cause that has no flag gets one (fpu.c:282, 300, 683, 700).             *)
TypeOK == /\ fpu \in FpuState
          /\ saved \in [Proc -> FpuState]
          /\ running \in Proc
          /\ owner \in Proc \cup {Nobody}
          /\ cu1 \in BOOLEAN /\ panic \in BOOLEAN

NoCause(u) == [u EXCEPT !.fcr.cause = {}]

(* The unit of a process, wherever it is. *)
Own(p) == NoCause(IF owner = p THEN fpu ELSE saved[p])

O == INSTANCE OwnFpu WITH own <- [p \in Proc |-> Own(p)]

(* Each process runs as if the unit were its own: what it computes with,   *)
(* stores and branches on is what it put there, because every instruction  *)
(* that reaches the unit asks for CU1 first (cpu.c:1406, 1747, 1761, 1785, *)
(* 1799), and because no instruction shows the causes, which every one     *)
(* clears (fpu.c:105), the kernel's own CFC1 among them.                   *)
ImplementsOwnFpu == O!Spec

(* "the minute anyone enables any trapping we cnanot easily support, we    *)
(* are GTFOing and letting the FPU emulator take it on" (fpu.c:101-103):   *)
(* from then on nothing the process or the kernel executes, CTC1 included, *)
(* takes the enable away.                                                  *)
StaysLocked == [][Locked(fpu) => Locked(fpu')]_vars

(* The kernel's own instructions trap for no other reason: it can always   *)
(* save and load the unit unless a process has locked it (fpu.c:101-103,   *)
(* 114-134, 141-157).                                                      *)
KernelGetsThrough == panic => Locked(fpu)

(* No process loses a flag, by traps, comparisons that set the condition,  *)
(* or its registers coming and going, until it writes the control register *)
(* (fpu.c:282, 300, 683).                                                  *)
FlagsSticky ==
    [][\A p \in Proc :
          \/ Own(p).fcr.flags \subseteq Own(p)'.fcr.flags
          \/ shown'.proc = p /\ shown'.set]_vars
=============================================================================
