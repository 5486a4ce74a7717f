------------------------------- MODULE OwnFpu -------------------------------
(***************************************************************************)
(* What processes that share a floating point unit may rely on: each has a *)
(* unit of its own, which only its own instructions change.  Causes are    *)
(* not a part of it: no instruction shows them.                            *)
(***************************************************************************)
EXTENDS Fpu

CONSTANTS Proc, Instrs, Words, ControlWords

VARIABLES own,   \* own[p]: the unit of process p
          shown  \* the process that had an instruction done, and its outcome

Quiet == [proc |-> "nobody", set |-> FALSE, ret |-> "none", r |-> Nothing]

Init == /\ own = [p \in Proc |-> Cleared]
        /\ shown = Quiet

NoCause(u) == [u EXCEPT !.fcr.cause = {}]

Inputs(i) == CASE i.op = "CTC" -> ControlWords
               [] i.op = "MTC" -> Words
               [] OTHER -> {Zero}

(* An instruction of the unit. *)
Operate(p, i) ==
    /\ shown'.proc = p /\ shown'.set = (i.op = "CTC")
    /\ \E x \in Inputs(i) : \E o \in fpuOp(i, x, own[p]) :
          /\ shown' = [proc |-> p, set |-> i.op = "CTC", ret |-> o.ret, r |-> o.r]
          /\ own' = [own EXCEPT ![p] = NoCause(o.fpu)]

(* A register, or a pair, is loaded or stored; either may fault. *)
LoadOne(p, fmt, n) ==
    /\ shown' = [proc |-> p, set |-> FALSE, ret |-> "done", r |-> Nothing]
    /\ \E u \in Given(own[p], fmt, n, Number) : own' = [own EXCEPT ![p] = u]

StoreOne(p, fmt, n) ==
    /\ shown' = [proc |-> p, set |-> FALSE, ret |-> "done",
                 r |-> OfWords(Held(own[p], fmt, n))]
    /\ UNCHANGED own

Fault == shown' = Quiet /\ UNCHANGED own

Next == \/ Fault
        \/ \E p \in Proc :
             \/ \E i \in Instrs[p] : Operate(p, i)
             \/ \E fmt \in {"S", "D"}, n \in FReg :
                  LoadOne(p, fmt, n) \/ StoreOne(p, fmt, n)

Spec == Init /\ [][Next]_<<own, shown>>
=============================================================================
