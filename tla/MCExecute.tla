----------------------------- MODULE MCExecute -----------------------------
(* An instance of Execute for TLC: bytes of one bit, words of four, two    *)
(* pages of one word each, and the top half of the address space.          *)
EXTENDS Execute

EveryMapping == [UserPage -> {"refill", "readonly", "writable"}]
                  \cup [UserPage -> {"invalid", "bus", "writable"}]

R(op, d, s, t) == [op |-> op, rd |-> d, rs |-> s, rt |-> t, imm |-> 0,
                   use |-> "reg"]
(* Immediate operand, or the offset from register 0. *)
I1(op, t, s, n) == [op |-> op, rd |-> t, rs |-> s, rt |-> t, imm |-> n,
                    use |-> "imm"]

TwoOperands == {"ADD", "SUB", "ADDU", "SUBU", "AND", "OR", "XOR", "NOR", "SLT",
                "SLTU", "SLL", "SRL", "SRA", "TGE", "TGEU", "TLT", "TLTU", "TEQ",
                "TNE"}

Arithmetic ==
    {<<R(op, d, 1, 2)>> : op \in TwoOperands, d \in {0, 1}}
      \cup {<<R(op, 0, 1, 2)>> : op \in {"MULT", "MULTU", "DIV", "DIVU"}}
      \cup {<<I1(op, 2, 1, n)>> : op \in {"ADD", "SLT", "TLT", "LUI", "SLL"},
                                  n \in {1, 7, 15}}
      \cup {<<R(a, 0, 1, 2), R(b, 2, 0, 0)>> : a \in {"MTHI", "MTLO", "MULT"},
                                               b \in {"MFHI", "MFLO"}}

Access1 == {<<I1(op, 1, 0, n)>> :
              op \in {"LB", "LBU", "LH", "LHU", "LW", "SB", "SH", "SW"}, n \in Word}

Pairs == {<<I1(h[1], 1, 0, (n + 3) % Size), I1(h[2], 1, 0, n)>> :
            h \in {<<"LWL", "LWR">>, <<"SWL", "SWR">>}, n \in Word}

(* LL and SC, to the same word and to another one. *)
Links == {<<I1("LL", 1, 0, n), I1("SC", 2, 0, m)>> : n, m \in {0, 4, 9}}

(* A program that a boot loader runs to size the caches. *)
Sizing == {<<I1("SW", 1, 0, n), I1(op, 2, 0, n)>> :
             n \in {0, 8}, op \in {"LW", "LBU", "SWL", "LWR"}}

AccessPrograms == Access1 \cup Pairs \cup {<<p[2], p[1]>> : p \in Pairs} \cup Links

Zeros == [q \in Phys |-> 0]
OneBit == {[Zeros EXCEPT ![q] = 1] : q \in Phys}
AllButOne == {[r \in Phys |-> 1 - m[r]] : m \in OneBit}

Regs(v, w) == [r \in Reg |-> CASE r = 1 -> v [] r = 2 -> w [] OTHER -> 0]

Begins(progs, regs, mems, modes, isolated) ==
    [prog : progs, reg : regs, mem : mems, kernel : modes, isc : isolated]

EveryStart ==
    Begins(Arithmetic, {Regs(v, w) : v, w \in Word}, {Zeros}, {TRUE}, {FALSE})
      \cup Begins(AccessPrograms, {Regs(v, 5) : v \in {1, 2, 4, 8, 15}},
                  OneBit \cup AllButOne, {TRUE, FALSE}, {FALSE})
      \cup Begins(Sizing, {Regs(v, 0) : v \in {6, 9}}, {Zeros}, {TRUE}, {TRUE})
=============================================================================
