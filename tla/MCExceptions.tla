---------------------------- MODULE MCExceptions ----------------------------
(* An instance of Exceptions for TLC: a loop with a branch, a likely       *)
(* branch, a jump, LL and SC, a system call and an instruction that only   *)
(* the kernel may use.                                                     *)
EXTENDS Exceptions

Code == <<"branch", "trap", "ll", "likely", "sc", "rfe", "jump", "plain">>
LoopKind == [a \in 0 .. 7 |-> Code[a + 1]]
LoopTarget == [a \in 0 .. 7 |-> CASE a = 0 -> 3 [] a = 3 -> 2 [] OTHER -> 0]
=============================================================================
