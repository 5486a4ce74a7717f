------------------------------ MODULE UserCode ------------------------------
(***************************************************************************)
(* What a program of user mode sees of the processor: its instructions     *)
(* one after another, a branch taking effect after the instruction in its  *)
(* delay slot.  Faults and interrupts are none of its business.  A branch  *)
(* that is taken is one step with its slot.                                *)
(***************************************************************************)
EXTENDS Integers

CONSTANTS Kind,   \* Kind[a]: the kind of instruction at address a
          Target  \* Target[a]: where the branch at a goes

VARIABLE at  \* the address of the instruction that comes next

Succ(a) == CASE Kind[a] = "branch" -> {a + 1, Target[a]}
             [] Kind[a] = "likely" -> {a + 2, Target[a]}
             [] Kind[a] = "jump"   -> {Target[a]}
             [] OTHER              -> {a + 1}

Init == at = 0

Next == at' \in Succ(at)

Spec == Init /\ [][Next]_at
=============================================================================
