----------------------------- MODULE Exceptions -----------------------------
(***************************************************************************)
(* The cycle of the emulated processor (emulator/cpu/cpu.c) as far as its  *)
(* flow goes: delay slots, exceptions and interrupts, the stack of KU and  *)
(* IE bits in Status, RFE, LL and SC.  What instructions compute is left   *)
(* out, and which accesses fault is left to module Tlb: any may.           *)
(*                                                                         *)
(* A user program is given; the kernel is not a part of this repository.   *)
(* Of it is assumed what its handlers must do: save EPC, and if need be    *)
(* Status, before they risk another exception, restore them, and return    *)
(* by a jump with RFE in its slot.  Addresses count instructions.          *)
(***************************************************************************)
EXTENDS Integers, Sequences

CONSTANTS Last,       \* the program is at 0 .. Last
          Kind,       \* see UserCode
          Target,     \* see UserCode
          Refill,     \* the vector 0x80000000: a refill for kuseg
          General,    \* the vector 0x80000080: everything else
          KernelTop,  \* bound: the last address of the kernel's code
          MaxNest     \* bound: exceptions not yet returned from

User == 0 .. Last
Kernel == Refill .. KernelTop
Vector == {Refill, General}
Kinds == {"plain", "branch", "likely", "jump", "ll", "sc", "trap", "rfe"}
Branches == {"branch", "likely", "jump"}

(* What follows the slot of a jump is not reached through it. *)
AfterJump(a) == a > 0 /\ Kind[a - 1] = "jump"

(* The program does not run off its end, and no branch is in a delay slot. *)
ASSUME CodeAssumption ==
    /\ Last \in Nat
    /\ Kind \in [User -> Kinds]
    /\ Target \in [User -> {a \in User : ~ AfterJump(a)}]
    /\ \A a \in User :
         /\ ~ AfterJump(a) => a + 1 \in User
         /\ Kind[a] = "likely" => a + 2 \in User /\ ~ AfterJump(a + 2)
         /\ Kind[a] \in Branches =>
              a + 1 \in User /\ Kind[a + 1] \notin Branches
ASSUME KernelAssumption ==
    /\ Refill \in Nat /\ General \in Nat /\ KernelTop \in Nat
    /\ Last < Refill /\ Refill < General /\ General < KernelTop
    /\ MaxNest \in Nat \ {0}

VARIABLES pc, npc, inDelaySlot, llbit, epc,
          status,  \* the current, previous and old pair of KU and IE
          cause,   \* BD and the kind of the last exception
          irq,     \* an interrupt is pending that IM lets through
          frames,  \* what each handler that runs has saved
          nest,    \* history: what each of these exceptions interrupted
          intact   \* history: the link is the program's, and no handler has
                   \* run since

vars == <<pc, npc, inDelaySlot, llbit, epc, status, cause, irq, frames, nest,
          intact>>

None == -1
Mode == [ku : BOOLEAN, ie : BOOLEAN]
KernelOff == [ku |-> FALSE, ie |-> FALSE]

InUser == status.cur.ku
-----------------------------------------------------------------------------
(* Where the program is: a branch that is taken and its slot are one unit. *)
Unit == IF inDelaySlot THEN pc - 1 ELSE pc

(* Mutant: the slot would be run again without its branch. *)
Epc_slot == pc

(* Where an instruction that did not finish is started again. *)
Epc == IF inDelaySlot THEN pc - 1 ELSE pc

(* Mutant: BD stays set. *)
BD_sticky == cause.bd \/ inDelaySlot

BD == inDelaySlot

(* Mutant: only two pairs move. *)
Shifted_short == [cur |-> KernelOff, prev |-> status.cur, old |-> status.old]

(* The pairs of KU and IE after an exception. *)
Shifted == [cur |-> KernelOff, prev |-> status.cur, old |-> status.prev]

Raw == [back |-> None, modes |-> <<>>, leaving |-> FALSE]

(* cpuPrvTakeException. *)
Take(code, vector) ==
    /\ epc' = Epc
    /\ cause' = [bd |-> BD, code |-> code]
    /\ status' = Shifted
    /\ inDelaySlot' = FALSE
    /\ pc' = vector
    /\ npc' = vector + 1
    /\ UNCHANGED <<llbit, irq>>
    /\ frames' = Append(frames, Raw)
    /\ nest' = Append(nest, [at |-> Unit, mode |-> status.cur,
                             next |-> IF code = "trap" THEN npc ELSE Unit])
    /\ intact' = FALSE

(* Mutant: a delay slot does not end. *)
NoBranchTaken_slot == pc' = npc /\ npc' = npc + 1 /\ UNCHANGED inDelaySlot

(* The flow of an instruction that has done its work. *)
NoBranchTaken == pc' = npc /\ npc' = npc + 1 /\ inDelaySlot' = FALSE

BranchTo(to) == pc' = npc /\ npc' = to /\ inDelaySlot' = TRUE

SkipNextInstr == pc' = npc + 1 /\ npc' = npc + 2 /\ inDelaySlot' = FALSE

(* An instruction that does no more than go on. *)
Goes(flow) == flow /\ UNCHANGED <<llbit, epc, status, cause, irq, frames, nest,
                                  intact>>

(* A fetch or an access that cannot be translated or carried out. *)
Fault == \E v \in Vector : Take("fault", v)

Ll == /\ NoBranchTaken
      /\ llbit' = TRUE
      /\ intact' = InUser
      /\ UNCHANGED <<epc, status, cause, irq, frames, nest>>

Sc == /\ NoBranchTaken
      /\ llbit' = FALSE
      /\ intact' = FALSE
      /\ UNCHANGED <<epc, status, cause, irq, frames, nest>>

Pop(s) == SubSeq(s, 1, Len(s) - 1)

(* Mutant: the link survives. *)
DoRfe_link == /\ NoBranchTaken
              /\ status' = [status EXCEPT !.cur = status.prev,
                                          !.prev = status.old]
              /\ frames' = Pop(frames)
              /\ nest' = Pop(nest)
              /\ UNCHANGED <<llbit, epc, cause, irq, intact>>

(* RFE pops the stack of modes, whose oldest pair stays where it is. *)
DoRfe == /\ NoBranchTaken
         /\ status' = [status EXCEPT !.cur = status.prev, !.prev = status.old]
         /\ llbit' = FALSE
         /\ frames' = Pop(frames)
         /\ nest' = Pop(nest)
         /\ UNCHANGED <<epc, cause, irq, intact>>

(* Mutant: anybody may use coprocessor 0. *)
Rfe_any == DoRfe

(* cpuPrvCopAccess(0): coprocessor 0 is the kernel's. *)
Rfe == IF InUser THEN Take("trap", General) ELSE DoRfe
-----------------------------------------------------------------------------
(* The kinds of instructions; a conditional trap need not trap. *)
Straight == /\ Kind[pc] \in {"plain", "branch", "trap"}
            /\ Goes(NoBranchTaken)

Branching == Kind[pc] \in Branches /\ Goes(BranchTo(Target[pc]))

Skipping == Kind[pc] = "likely" /\ Goes(SkipNextInstr)

Trapping == Kind[pc] = "trap" /\ Take("trap", General)

(* The instruction of the program at pc. *)
UserInstr ==
    /\ InUser
    /\ \/ Fault
       \/ Straight \/ Branching \/ Skipping \/ Trapping
       \/ Kind[pc] = "ll" /\ Ll
       \/ Kind[pc] = "sc" /\ Sc
       \/ Kind[pc] = "rfe" /\ Rfe
-----------------------------------------------------------------------------
(* The kernel. *)

Top == frames[Len(frames)]

(* Another exception can be afforded: EPC is saved, and of this handler    *)
(* and the one it interrupted at most one relies on the pairs in Status.   *)
Affordable ==
    /\ Len(nest) < MaxNest
    /\ Top.back # None /\ ~ Top.leaving
    /\ \/ Top.modes # <<>>
       \/ \A i \in DOMAIN frames :
             i = Len(frames) - 1 => frames[i].modes # <<>>

(* An instruction outside a delay slot that is all the same to the flow. *)
Steps == ~ inDelaySlot /\ ~ Top.leaving /\ NoBranchTaken /\ npc' \in Kernel

KeepsFrame(f) == /\ frames' = [frames EXCEPT ![Len(frames)] = f]
                 /\ UNCHANGED <<llbit, epc, cause, irq, nest, intact>>

(* What trapped has been dealt with: the program goes on after it, which,  *)
(* when it was in the slot of a branch, is where the branch went.          *)
Beyond == CASE cause.code # "trap" -> epc
            [] cause.code = "trap" /\ cause.bd -> Target[epc]
            [] OTHER -> epc + 1

(* MFC0 of EPC, kept for the return. *)
SaveEpc == /\ Top.back = None
           /\ Steps
           /\ KeepsFrame([Top EXCEPT !.back = Beyond])
           /\ UNCHANGED status

(* MFC0 of Status. *)
SaveStatus == /\ Top.back # None /\ Top.modes = <<>>
              /\ Steps
              /\ KeepsFrame([Top EXCEPT !.modes = <<status.prev, status.old>>])
              /\ UNCHANGED status

(* MTC0 to Status of new bits. *)
Mtc0Status(word) == status' = word

EnableIrqs == /\ Top.modes # <<>> /\ Affordable
              /\ Steps
              /\ Mtc0Status([status EXCEPT !.cur.ie = TRUE])
              /\ KeepsFrame(Top)

RestoreStatus == /\ Top.modes # <<>>
                 /\ Steps
                 /\ Mtc0Status([cur |-> KernelOff, prev |-> Top.modes[1],
                                old |-> Top.modes[2]])
                 /\ KeepsFrame([Top EXCEPT !.modes = <<>>])

Return == /\ Top.back # None /\ Top.modes = <<>>
          /\ ~ inDelaySlot /\ ~ Top.leaving
          /\ BranchTo(Top.back)
          /\ KeepsFrame([Top EXCEPT !.leaving = TRUE])
          /\ UNCHANGED status

Works == /\ ~ Top.leaving
         /\ \/ (Goes(NoBranchTaken) \/ Ll \/ Sc) /\ npc' \in Kernel
            \/ ~ inDelaySlot /\ \E v \in Vector : Goes(BranchTo(v))
            \/ Affordable /\ Fault

KernelInstr == /\ ~ InUser
               /\ \/ SaveEpc \/ SaveStatus \/ EnableIrqs \/ RestoreStatus
                  \/ Return \/ Works
                  \/ Top.leaving /\ Rfe
-----------------------------------------------------------------------------
(* No interrupt is taken between a branch and its slot. *)
Interruptible == ~ inDelaySlot /\ status.cur.ie /\ irq

cpuCycle == IF Interruptible THEN Take("irq", General)
                             ELSE UserInstr \/ KernelInstr

(* The devices raise and lower their interrupts. *)
Device == irq' = ~ irq /\ UNCHANGED <<pc, npc, inDelaySlot, llbit, epc, status,
                                      cause, frames, nest, intact>>

(* The kernel has started the program. *)
Init == /\ pc = 0 /\ npc = 1
        /\ inDelaySlot = FALSE
        /\ llbit = FALSE
        /\ epc = 0
        /\ status = [cur |-> [ku |-> TRUE, ie |-> TRUE],
                     prev |-> KernelOff, old |-> KernelOff]
        /\ cause = [bd |-> FALSE, code |-> "irq"]
        /\ irq = FALSE
        /\ frames = <<>>
        /\ nest = <<>>
        /\ intact = FALSE

Next == cpuCycle \/ Device

Spec == Init /\ [][Next]_vars

(* Core 1 calls cpuCycle for ever. *)
FairSpec == Spec /\ WF_vars(cpuCycle)
-----------------------------------------------------------------------------
TypeOK ==
    /\ pc \in User \cup Kernel
    /\ npc \in User \cup Kernel
    /\ inDelaySlot \in BOOLEAN /\ llbit \in BOOLEAN
    /\ irq \in BOOLEAN /\ intact \in BOOLEAN
    /\ epc \in User \cup Kernel
    /\ status \in [cur : Mode, prev : Mode, old : Mode]
    /\ cause \in [bd : BOOLEAN, code : {"irq", "fault", "trap"}]
    /\ Len(nest) \in 0 .. MaxNest /\ Len(frames) = Len(nest)

(* However exceptions nest and return, the program runs in user mode and   *)
(* its handlers do not: no sequence of saved, shifted and restored pairs   *)
(* leaks the kernel's privilege (cpu.c:318-320, 850-859, 1373-1378).       *)
UserStaysUser == InUser <=> nest = <<>>

Unsaved(i) == frames[i].modes = <<>>

(* What handlers have saved is what their exceptions interrupted. *)
FrameInv(i) ==
    /\ ~ Unsaved(i) => frames[i].modes[1] = nest[i].mode
    /\ (i > 1 /\ ~ Unsaved(i) /\ Unsaved(i - 1)) =>
          frames[i].modes[2] = nest[i - 1].mode
    /\ frames[i].back # None => frames[i].back = nest[i].next

(* What interrupted what: one exception came from the program, the others  *)
(* from handlers that could afford them.                                   *)
NestInv(i) ==
    /\ nest[i].mode.ku <=> i = 1
    /\ i > 1 => frames[i - 1].back # None /\ ~ frames[i - 1].leaving
    /\ (i > 1 /\ nest[i].mode.ie) => ~ Unsaved(i - 1)
    /\ (i > 2 /\ Unsaved(i - 1)) => ~ Unsaved(i - 2)

(* What the handler on top has not saved is still in the registers. *)
TopInv(n) ==
    /\ Unsaved(n) => status.prev = nest[n].mode
    /\ (n > 1 /\ Unsaved(n) /\ Unsaved(n - 1)) => status.old = nest[n - 1].mode
    /\ frames[n].back = None => Beyond = nest[n].next
    /\ status.cur.ie => ~ Unsaved(n) /\ frames[n].back # None
    /\ frames[n].leaving =>
          /\ inDelaySlot /\ npc = frames[n].back
          /\ frames[n].back # None /\ Unsaved(n)

(* Where the program goes: to the next instruction, or from a delay slot   *)
(* to where its branch went.                                               *)
FlowInv ==
    /\ InUser /\ ~ inDelaySlot => npc = pc + 1 /\ ~ AfterJump(pc)
    /\ InUser /\ inDelaySlot =>
          /\ pc - 1 \in User /\ Kind[pc - 1] \in Branches
          /\ npc = Target[pc - 1]
    /\ InUser => pc \in User
    /\ nest # <<>> => nest[1].next \in User /\ ~ AfterJump(nest[1].next)

(* Why handlers return where they should: at any time the mode and the     *)
(* place each exception interrupted are in a register or in a frame.       *)
HandlersInv ==
    /\ Len(frames) = Len(nest)
    /\ InUser <=> nest = <<>>
    /\ \A i \in 1 .. Len(nest) : FrameInv(i) /\ NestInv(i)
    /\ nest # <<>> => TopInv(Len(nest))
    /\ FlowInv

(* A handler returns to what its exception interrupted, in the mode it was *)
(* in, two unsaved levels included (cpu.c:318-320, 1373-1378).             *)
ReturnsWhereItWas ==
    [][Len(nest') < Len(nest) =>
          /\ pc' = nest[Len(nest)].next
          /\ npc' = pc' + 1
          /\ status'.cur = nest[Len(nest)].mode]_vars

(* A link the program can use was made by itself, and no handler has run   *)
(* since: SC stores only if nothing came between (cpu.c:1377, 1722-1736).  *)
LinkIntact == InUser /\ llbit => intact

Program == INSTANCE UserCode WITH
    at <- IF nest = <<>> THEN Unit ELSE nest[1].at

(* The program runs as if there were no exceptions: none of its            *)
(* instructions is skipped or run once more, its branches and their slots  *)
(* stay together (cpu.c:309-317, 850-869, 884).                            *)
ImplementsProgram == Program!Spec

(* A pending interrupt stops the program before long, wherever its         *)
(* branches lead, since delay slots end (cpu.c:884, 850-855).              *)
UserIsInterrupted == (irq /\ InUser) ~> (~ InUser \/ ~ irq)
=============================================================================
