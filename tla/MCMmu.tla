------------------------------- MODULE MCMmu -------------------------------
(* An instance of Mmu for TLC. *)
EXTENDS Mmu

CONSTANTS u0, d0,  \* pages
          f0, f1   \* frames

HashOf == [p \in Page |-> IF p \in Direct THEN 0 ELSE 1]
DirectMap == [p \in Direct |-> f1]
(* Valid in one address space, and valid and writable in all. *)
FlagWords == {{"V"}, {"V", "D", "G"}}

(* What the last call has answered is shown and not read again.            *)
Kept == <<tlb, entryHi, entryLo, index, hash, icache>>
=============================================================================
