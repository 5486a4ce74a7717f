-------------------------------- MODULE Isa --------------------------------
(***************************************************************************)
(* What a program may rely on: an instruction is done as a whole or not at *)
(* all, and does to registers and memory, byte by byte, what the manual of *)
(* a little endian MIPS says.  What arithmetic computes is left open, and  *)
(* what loads bring while the data cache is isolated.                      *)
(***************************************************************************)
EXTENDS Integers, Sequences

CONSTANTS Base,      \* the number of values of a byte
          Reg, MemBytes

(* What the digits of a word count for. *)
Place == <<1, Base, Base * Base, Base * Base * Base>>

Size == Base * Base * Base * Base
Byte == 0 .. Base - 1
Word == 0 .. Size - 1

VARIABLES prog, reg, mem, isolated

vars == <<prog, reg, mem, isolated>>

ByteOf(v, j) == (v \div Place[j + 1]) % Base
Join(b) == b[0] + Base * (b[1] + Base * (b[2] + Base * b[3]))

(* Kernel addresses are physical ones in the top half. *)
Where(va) == va % (Size \div 2)
At(va) == mem[Where(va)]

Instr == Head(prog)
T == reg[Instr.rt]
Ea == (reg[Instr.rs] + Instr.imm) % Size
Offset == Ea % 4
Dest == IF Instr.use = "imm" /\ Instr.op \notin {"SLL", "SRL", "SRA"}
          THEN Instr.rt ELSE Instr.rd

(* The number of bytes of an access, and whether a load extends the sign. *)
Bytes == [LB |-> 1, LBU |-> 1, LH |-> 2, LHU |-> 2, LW |-> 4, LL |-> 4,
          SB |-> 1, SH |-> 2, SW |-> 4, SC |-> 4]
Fill(n) == IF Instr.op \in {"LB", "LH"} /\ At(Ea + n - 1) >= Base \div 2
             THEN Base - 1 ELSE 0

Sets(r, values) == \E v \in values :
                      reg' = IF r = 0 THEN reg ELSE [reg EXCEPT ![r] = v]

Loads(b) == /\ Sets(Instr.rt, IF isolated THEN Word ELSE {Join(b)})
            /\ UNCHANGED mem

(* Bytes of T, from number j on, go to the addresses from low to high. *)
Stores(low, high, j) ==
    /\ mem' = IF isolated THEN mem
              ELSE [q \in DOMAIN mem |->
                      IF q \in Where(low) .. Where(high)
                        THEN ByteOf(T, j + q - Where(low))
                        ELSE mem[q]]

Does ==
    CASE Instr.op \in {"LB", "LBU", "LH", "LHU", "LW", "LL"} ->
            LET n == Bytes[Instr.op]
            IN  Loads([j \in 0 .. 3 |-> IF j < n THEN At(Ea + j) ELSE Fill(n)])
      [] Instr.op = "LWL" ->
            Loads([j \in 0 .. 3 |-> IF j >= 3 - Offset THEN At(Ea - (3 - j))
                                                       ELSE ByteOf(T, j)])
      [] Instr.op = "LWR" ->
            Loads([j \in 0 .. 3 |-> IF j <= 3 - Offset THEN At(Ea + j)
                                                       ELSE ByteOf(T, j)])
      [] Instr.op \in {"SB", "SH", "SW"} ->
            Stores(Ea, Ea + Bytes[Instr.op] - 1, 0) /\ UNCHANGED reg
      [] Instr.op = "SWL" ->
            Stores(Ea - Offset, Ea, 3 - Offset) /\ UNCHANGED reg
      [] Instr.op = "SWR" ->
            Stores(Ea, Ea + 3 - Offset, 0) /\ UNCHANGED reg
      [] Instr.op = "SC" ->
            \/ Sets(Instr.rt, {0}) /\ UNCHANGED mem
            \/ Sets(Instr.rt, {1}) /\ Stores(Ea, Ea + 3, 0)
      [] OTHER ->
            Sets(Dest, Word) /\ UNCHANGED mem

Init == /\ reg \in [Reg -> Word]
        /\ reg[0] = 0
        /\ mem \in [0 .. MemBytes - 1 -> Byte]
        /\ isolated \in BOOLEAN

Next == /\ prog # <<>>
        /\ prog' = Tail(prog)
        /\ Does
        /\ UNCHANGED isolated

Spec == Init /\ [][Next]_vars
=============================================================================
