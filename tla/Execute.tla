------------------------------ MODULE Execute ------------------------------
(***************************************************************************)
(* What the instructions of the emulated processor do to its registers and *)
(* to memory (emulator/cpu/cpu.c, cpuCycle and cpuPrvDataAccess): integer  *)
(* arithmetic, conditional traps, loads and stores of every size, the two  *)
(* halves of an unaligned access, LL and SC.  The flow from instruction to *)
(* instruction is in module Exceptions, the TLB in module Mmu.             *)
(*                                                                         *)
(* A program is a sequence of instructions without branches.  The kernel   *)
(* is not a part of this repository: after an exception, or an interrupt,  *)
(* it changes the mapping of pages, and returns to the program, steps over *)
(* the instruction or ends the program.                                    *)
(*                                                                         *)
(* The width of a byte is a parameter, and a word has four bytes: shifts   *)
(* and masks are the code's, with ByteBits for its 8.                      *)
(***************************************************************************)
EXTENDS Integers, Sequences

CONSTANTS ByteBits,   \* 8
          Reg,        \* 0 .. 31
          PageBytes,  \* 4096
          MemBytes,   \* the physical addresses RAM answers to
          Mappings,   \* how the kernel maps user pages
          Starts      \* what programs there are and what they find

WordBits == 4 * ByteBits

(* Powers of two, as far as words go. *)
pow2[n \in 0 .. WordBits] == IF n = 0 THEN 1 ELSE 2 * pow2[n - 1]

Size == pow2[WordBits]
Sign == Size \div 2
Word == 0 .. Size - 1
Byte == 0 .. pow2[ByteBits] - 1
Phys == 0 .. MemBytes - 1
UserPage == 0 .. (Sign \div PageBytes) - 1

(* What the TLB says of a page.  Its frame has the same number, but for a  *)
(* "bus" page, whose frame is not memory.                                  *)
PageState == {"refill", "invalid", "readonly", "writable", "bus"}

(* The format of LUI has an immediate operand; those of multiplication,    *)
(* division and the moves from HI and LO have none.                        *)
Instruction ==
    {i \in [op : STRING, rd : Reg, rs : Reg, rt : Reg, imm : Word,
            use : {"reg", "imm"}] :
       /\ i.op = "LUI" => i.use = "imm"
       /\ i.op \in {"MULT", "MULTU", "DIV", "DIVU", "MFHI", "MFLO"} => i.use = "reg"}

ASSUME ExecuteAssumption ==
    /\ ByteBits \in Nat \ {0}
    /\ Reg \subseteq Nat /\ 0 \in Reg
    /\ PageBytes \in Nat \ {0} /\ PageBytes % 4 = 0 /\ Sign % PageBytes = 0
    /\ MemBytes \in Nat \ {0}
    /\ Mappings \subseteq [UserPage -> PageState]
    /\ \A s \in Starts :
         /\ s.prog \in Seq(Instruction)
         /\ s.reg \in [Reg -> Word] /\ s.reg[0] = 0
         /\ s.mem \in [Phys -> Byte]
         /\ s.kernel \in BOOLEAN /\ s.isc \in BOOLEAN

VARIABLES prog,      \* the instructions left
          reg, hi, lo, llbit,
          mem,       \* physical memory
          page,      \* the mapping of the user's pages
          lastWrite, \* what an isolated data cache answers
          exc,       \* the exception the last instruction took, or "none"
          start      \* what the program found, its mode and ISC included

vars == <<prog, reg, hi, lo, llbit, mem, page, lastWrite, exc, start>>
-----------------------------------------------------------------------------
Signed(v) == IF v < Sign THEN v ELSE v - Size
IsSigned(n) == n \in -Sign .. Sign - 1

Shl(v, n) == (v * pow2[n]) % Size
Shr(v, n) == v \div pow2[n]
Sar(v, n) == (Signed(v) \div pow2[n]) % Size

Bits(v) == {n \in 0 .. WordBits - 1 : Shr(v, n) % 2 = 1}

FromBits(S) ==
    LET upto[n \in 0 .. WordBits] ==
          IF n = 0 THEN 0
                   ELSE upto[n - 1] + (IF n - 1 \in S THEN pow2[n - 1] ELSE 0)
    IN  upto[WordBits]

Or(v, w) == FromBits(Bits(v) \cup Bits(w))

(* The instruction at hand, its operands and its effective address. *)
Instr == Head(prog)
S == reg[Instr.rs]
T == reg[Instr.rt]
Ea == (S + Instr.imm) % Size
Op(ops) == prog # <<>> /\ exc = "none" /\ Instr.op \in ops

(* cpuSetRegT and cpuSetRegD. *)
Put(r, v) == IF r = 0 THEN reg ELSE [reg EXCEPT ![r] = v]

Goes == prog' = Tail(prog) /\ exc' = "none" /\ UNCHANGED <<page, start>>

(* cpuPrvTakeException; module Exceptions says what it does to the flow. *)
Takes(e) == exc' = e /\ UNCHANGED <<prog, reg, hi, lo, llbit, mem, page,
                                    lastWrite, start>>

(* An instruction whose only result is in a register. *)
Gives(r, v) == /\ Goes
               /\ reg' = Put(r, v)
               /\ UNCHANGED <<hi, lo, llbit, mem, lastWrite>>
-----------------------------------------------------------------------------
(* Arithmetic.  Instructions that take an immediate operand, which imm     *)
(* holds as the code extends it, differ from those that take two registers *)
(* in nothing else.                                                        *)

Immediate == Instr.use = "imm"
Arg == IF Immediate THEN Instr.imm ELSE T
Dest == IF Immediate THEN Instr.rt ELSE Instr.rd

Result(op, s, t) ==
    CASE op = "ADDU" -> (s + t) % Size
      [] op = "SUBU" -> (s - t) % Size
      [] op = "AND" -> FromBits(Bits(s) \cap Bits(t))
      [] op = "OR" -> Or(s, t)
      [] op = "XOR" -> FromBits((Bits(s) \cup Bits(t)) \ (Bits(s) \cap Bits(t)))
      [] op = "NOR" -> Size - 1 - Or(s, t)
      [] op = "SLT" -> IF Signed(s) < Signed(t) THEN 1 ELSE 0
      [] op = "SLTU" -> IF s < t THEN 1 ELSE 0

Compute ==
    /\ Op({"ADDU", "SUBU", "AND", "OR", "XOR", "NOR", "SLT", "SLTU"})
    /\ Gives(Dest, Result(Instr.op, S, Arg))

LoadUpper == Op({"LUI"}) /\ Gives(Instr.rt, Shl(Instr.imm, WordBits \div 2))

(* The amount is that of the instruction, or the low bits of a register.   *)
Shift ==
    LET n == (IF Immediate THEN Instr.imm ELSE S) % WordBits
    IN  /\ Op({"SLL", "SRL", "SRA"})
        /\ Gives(Instr.rd, CASE Instr.op = "SLL" -> Shl(T, n)
                             [] Instr.op = "SRL" -> Shr(T, n)
                             [] Instr.op = "SRA" -> Sar(T, n))

(* Mutant: the carry is taken for the overflow. *)
Overflows_carry(n) == n \notin Word

(* __builtin_sadd_overflow and __builtin_ssub_overflow. *)
Overflows(n) == ~ IsSigned(n)

(* ADD, ADDI and SUB. *)
AddSigned ==
    LET n == IF Instr.op = "ADD" THEN Signed(S) + Signed(Arg)
                                 ELSE Signed(S) - Signed(Arg)
    IN  /\ Op({"ADD", "SUB"})
        /\ IF Overflows(n) THEN Takes("Ov") ELSE Gives(Dest, n % Size)

Holds(op, s, t) ==
    CASE op = "TGE" -> Signed(s) >= Signed(t)
      [] op = "TGEU" -> s >= t
      [] op = "TLT" -> Signed(s) < Signed(t)
      [] op = "TLTU" -> s < t
      [] op = "TEQ" -> s = t
      [] op = "TNE" -> s # t

Trap == /\ Op({"TGE", "TGEU", "TLT", "TLTU", "TEQ", "TNE"})
        /\ IF Holds(Instr.op, S, Arg)
             THEN Takes("Tr")
             ELSE Goes /\ UNCHANGED <<reg, hi, lo, llbit, mem, lastWrite>>

SetsHiLo(h, l) == /\ Goes
                  /\ hi' = h
                  /\ lo' = l
                  /\ UNCHANGED <<reg, llbit, mem, lastWrite>>

(* hilo64 is one product of twice the width. *)
Mult == LET n == IF Instr.op = "MULT" THEN Signed(S) * Signed(T) ELSE S * T
        IN  /\ Op({"MULT", "MULTU"})
            /\ SetsHiLo((n \div Size) % Size, n % Size)

Abs(n) == IF n < 0 THEN -n ELSE n

(* C's quotient, which rounds toward zero. *)
Quotient(a, b) ==
    IF (a < 0) = (b < 0) THEN Abs(a) \div Abs(b) ELSE -(Abs(a) \div Abs(b))

(* A quotient that is not an int is undefined behaviour: any result.       *)
Div ==
    LET a == IF Instr.op = "DIV" THEN Signed(S) ELSE S
        b == IF Instr.op = "DIV" THEN Signed(T) ELSE T
        q == Quotient(a, b)
    IN  /\ Op({"DIV", "DIVU"})
        /\ IF T = 0 THEN SetsHiLo(hi, lo)
           ELSE IF Instr.op = "DIV" /\ ~ IsSigned(q)
             THEN \E h, l \in Word : SetsHiLo(h, l)
             ELSE SetsHiLo((a - q * b) % Size, q % Size)

MoveHiLo ==
    \/ Op({"MFHI"}) /\ Gives(Instr.rd, hi)
    \/ Op({"MFLO"}) /\ Gives(Instr.rd, lo)
    \/ Op({"MTHI"}) /\ SetsHiLo(S, lo)
    \/ Op({"MTLO"}) /\ SetsHiLo(hi, S)
-----------------------------------------------------------------------------
(* Memory. *)

ByteOf(v, i) == Shr(v, i * ByteBits) % pow2[ByteBits]

(* So many bytes from pa on, the lowest first. *)
Loaded(pa, n) ==
    LET upto[i \in 0 .. n] ==
          IF i = 0 THEN 0
                   ELSE upto[i - 1] + Shl(mem[pa + i - 1], (i - 1) * ByteBits)
    IN  upto[n]

Stored(pa, n, v) ==
    [q \in Phys |-> IF q \in pa .. pa + n - 1 THEN ByteOf(v, q - pa) ELSE mem[q]]

NoMemory == MemBytes

(* cpuPrvMemTranslate: the top half stands for kseg0 and kseg1.  Note that *)
(* a user's store there is reported as a load.                             *)
Translated(va, write) ==
    IF va >= Sign
      THEN [pa |-> va - Sign, exc |-> IF start.kernel THEN "none" ELSE "AdEL"]
      ELSE LET p == page[va \div PageBytes]
           IN  [pa |-> IF p = "bus" THEN NoMemory ELSE va,
                exc |-> CASE p \in {"refill", "invalid"} ->
                                IF write THEN "TLBS" ELSE "TLBL"
                          [] p = "readonly" /\ write -> "Mod"
                          [] OTHER -> "none"]

(* cpuPrvDataAccess, up to the access itself: where it goes, or why not.   *)
Access(va, n, write) ==
    LET t == Translated(va, write)
    IN  IF va % n # 0
          THEN [t EXCEPT !.exc = IF write THEN "AdES" ELSE "AdEL"]
        ELSE IF t.exc = "none" /\ ~ start.isc /\ t.pa + n > MemBytes
          THEN [t EXCEPT !.exc = "DBE"]
        ELSE t

(* What a load that gets through brings. *)
Fetched(a, n) == IF start.isc THEN lastWrite % pow2[n * ByteBits]
                              ELSE Loaded(a.pa, n)

(* A store that gets through; an isolated cache keeps the last word. *)
Writes(a, n, v) ==
    IF start.isc
      THEN /\ lastWrite' = IF n = 4 THEN v ELSE lastWrite
           /\ UNCHANGED mem
      ELSE /\ mem' = Stored(a.pa, n, v)
           /\ UNCHANGED lastWrite

Bytes(op) == CASE op \in {"LB", "LBU", "SB"} -> 1
               [] op \in {"LH", "LHU", "SH"} -> 2
               [] OTHER -> 4

Extended(v, n) == IF v >= pow2[n * ByteBits - 1]
                    THEN (v - pow2[n * ByteBits]) % Size
                    ELSE v

Load ==
    LET n == Bytes(Instr.op)
        a == Access(Ea, n, FALSE)
        v == Fetched(a, n)
    IN  /\ Op({"LB", "LBU", "LH", "LHU", "LW"})
        /\ IF a.exc # "none" THEN Takes(a.exc)
           ELSE Gives(Instr.rt,
                      IF Instr.op \in {"LB", "LH"} THEN Extended(v, n) ELSE v)

Store ==
    LET n == Bytes(Instr.op)
        a == Access(Ea, n, TRUE)
    IN  /\ Op({"SB", "SH", "SW"})
        /\ IF a.exc # "none" THEN Takes(a.exc)
           ELSE /\ Goes
                /\ Writes(a, n, T % pow2[n * ByteBits])
                /\ UNCHANGED <<reg, hi, lo, llbit>>

Offset == Ea % 4
Aligned == Ea - Offset
(* The bits of whole bytes by which LWR and SWR, and LWL and SWL, shift.   *)
Low == Offset * ByteBits
High == (3 - Offset) * ByteBits

(* The high bits of v, all but the lowest n, and its low bits.             *)
ClearLow(v, n) == Shl(Shr(v, n), n)
ClearHigh(v, n) == Shr(Shl(v, n), n)

(* Mutant: the register keeps one byte too few. *)
Right_short(v, d) ==
    IF Offset = 0 THEN d ELSE Or(Shr(d, Low), ClearLow(v, WordBits - Low + ByteBits))

(* LWR puts d, from the address on, below what the register v keeps. *)
Right(v, d) ==
    IF Offset = 0 THEN d ELSE Or(Shr(d, Low), ClearLow(v, WordBits - Low))

(* LWL puts d, up to the address, above what the register keeps. *)
Left(v, d) ==
    IF Offset = 3 THEN d ELSE Or(Shl(d, High), ClearHigh(v, WordBits - High))

LoadHalf ==
    LET a == Access(Aligned, 4, FALSE)
        d == Fetched(a, 4)
    IN  /\ Op({"LWL", "LWR"})
        /\ IF a.exc # "none" THEN Takes(a.exc)
           ELSE Gives(Instr.rt, IF Instr.op = "LWR" THEN Right(T, d)
                                                   ELSE Left(T, d))

(* SWR and SWL: what the word d in memory becomes. *)
RightInto(v, d) ==
    IF Offset = 0 THEN v ELSE Or(Shl(v, Low), ClearHigh(d, WordBits - Low))

LeftInto(v, d) ==
    IF Offset = 3 THEN v ELSE Or(Shr(v, High), ClearLow(d, WordBits - High))

(* Mutant: the store goes where the load was let through. *)
StoreHalf_once ==
    LET r == Access(Aligned, 4, FALSE)
        d == Fetched(r, 4)
    IN  /\ Op({"SWL", "SWR"})
        /\ IF r.exc # "none" THEN Takes(r.exc)
           ELSE /\ Goes
                /\ Writes(r, 4, IF Instr.op = "SWR" THEN RightInto(T, d)
                                                   ELSE LeftInto(T, d))
                /\ UNCHANGED <<reg, hi, lo, llbit>>

(* The word is read, changed and written back, translated each time. *)
StoreHalf ==
    LET r == Access(Aligned, 4, FALSE)
        w == Access(Aligned, 4, TRUE)
        d == Fetched(r, 4)
    IN  /\ Op({"SWL", "SWR"})
        /\ IF r.exc # "none" THEN Takes(r.exc)
           ELSE IF w.exc # "none" THEN Takes(w.exc)
           ELSE /\ Goes
                /\ Writes(w, 4, IF Instr.op = "SWR" THEN RightInto(T, d)
                                                   ELSE LeftInto(T, d))
                /\ UNCHANGED <<reg, hi, lo, llbit>>

LoadLinked ==
    LET a == Access(Ea, 4, FALSE)
    IN  /\ Op({"LL"})
        /\ IF a.exc # "none" THEN Takes(a.exc)
           ELSE /\ Goes
                /\ reg' = Put(Instr.rt, Fetched(a, 4))
                /\ llbit' = TRUE
                /\ UNCHANGED <<hi, lo, mem, lastWrite>>

(* Mutant: success is reported before the store is tried. *)
StoreConditional_early ==
    LET a == Access(Ea, 4, TRUE)
    IN  /\ Op({"SC"})
        /\ reg' = Put(Instr.rt, IF llbit THEN 1 ELSE 0)
        /\ UNCHANGED <<hi, lo, page, start>>
        /\ IF llbit /\ a.exc # "none"
             THEN exc' = a.exc /\ UNCHANGED <<prog, llbit, mem, lastWrite>>
             ELSE /\ Goes
                  /\ IF llbit THEN Writes(a, 4, T)
                              ELSE UNCHANGED <<mem, lastWrite>>
                  /\ llbit' = FALSE

(* Without a link the address is not even looked at. *)
StoreConditional ==
    LET a == Access(Ea, 4, TRUE)
    IN  /\ Op({"SC"})
        /\ IF llbit /\ a.exc # "none" THEN Takes(a.exc)
           ELSE /\ Goes
                /\ reg' = Put(Instr.rt, IF llbit THEN 1 ELSE 0)
                /\ IF llbit THEN Writes(a, 4, T) ELSE UNCHANGED <<mem, lastWrite>>
                /\ llbit' = FALSE
                /\ UNCHANGED <<hi, lo>>
-----------------------------------------------------------------------------
(* The kernel, which the program enters by an exception or an interrupt    *)
(* and leaves by RFE.  It deals with the faults of the TLB; the others end *)
(* the program.                                                            *)
Kernel ==
    /\ prog # <<>>
    /\ exc \in {"none", "TLBL", "TLBS", "Mod"}
    /\ page' \in Mappings
    /\ exc' = "none"
    /\ llbit' = FALSE
    /\ UNCHANGED <<prog, reg, hi, lo, mem, lastWrite, start>>

Init == /\ start \in Starts
        /\ prog = start.prog
        /\ reg = start.reg
        /\ mem = start.mem
        /\ page \in Mappings
        /\ hi = 0 /\ lo = 0 /\ lastWrite = 0
        /\ llbit = FALSE
        /\ exc = "none"

Next == \/ Compute \/ LoadUpper \/ Shift \/ AddSigned \/ Trap
        \/ Mult \/ Div \/ MoveHiLo
        \/ Load \/ Store \/ LoadHalf \/ StoreHalf
        \/ LoadLinked \/ StoreConditional
        \/ Kernel

Spec == Init /\ [][Next]_vars
-----------------------------------------------------------------------------
Finished == prog = <<>> /\ exc = "none"

(* The one instruction of a program, and its operands. *)
Only == start.prog[1]
FoundS == start.reg[Only.rs]
FoundT == IF Only.use = "imm" THEN Only.imm ELSE start.reg[Only.rt]
To == IF Only.use = "imm" THEN Only.rt ELSE Only.rd

(* What arithmetic gives as signed numbers is exact where it does not trap *)
(* (cpu.c:983-1039): a sum that does not fit never goes unnoticed, and     *)
(* quotient, divisor and remainder give the dividend back.                 *)
ResultsExact ==
    (Finished /\ Len(start.prog) = 1) =>
       LET s == Signed(FoundS)
           t == Signed(FoundT)
       IN  CASE Only.op = "ADD" -> To # 0 => Signed(reg[To]) = s + t
             [] Only.op = "SUB" -> To # 0 => Signed(reg[To]) = s - t
             [] Only.op = "MULT" -> Signed(hi) * Size + lo = s * t
             [] Only.op = "DIV" ->
                   (t # 0 /\ ~ (s = -Sign /\ t = -1)) =>
                      /\ Signed(lo) * t + Signed(hi) = s
                      /\ Abs(Signed(hi)) < Abs(t)
                      /\ Signed(hi) * s >= 0
             [] OTHER -> TRUE

(* A store reaches a byte of memory only through a page that can be        *)
(* written, or in kernel mode, and never while the cache is isolated: what *)
(* let the load half of SWL and SWR through is not enough (cpu.c:722-758,  *)
(* 1659-1661).                                                             *)
StoresAllowed ==
    [][\A q \in Phys : mem'[q] # mem[q] =>
          /\ ~ start.isc
          /\ start.kernel \/ page[q \div PageBytes] = "writable"]_vars

(* The two halves of an unaligned access at an address, in either order. *)
Halves(p, left, right) ==
    /\ Len(p) = 2
    /\ p[1].rt = p[2].rt /\ p[1].rs = p[2].rs
    /\ \E r \in {1, 2} : /\ p[r].op = right
                         /\ p[3 - r].op = left
                         /\ p[3 - r].imm = (p[r].imm + 3) % Size

AddressOf(p, right) ==
    LET r == CHOOSE r \in {1, 2} : p[r].op = right
    IN  (start.reg[p[r].rs] + p[r].imm) % Size

(* The byte at an address, whichever half of the address space it is in.   *)
PhysOf(va) == va % Sign

(* "thus to load an unaligned word from 0($s0) to $a0" (cpu.c:1607-1613):  *)
(* whatever faults come between the halves, whatever pages the kernel maps *)
(* and unmaps meanwhile, the register has the four bytes at the address    *)
(* and memory is as it was, unless the register is register 0 or the one   *)
(* that addresses; after the halves of a store the bytes are in memory,    *)
(* and their neighbours as they were.                                      *)
HalvesMakeAWord ==
    (Finished /\ ~ start.isc) =>
       /\ (/\ Halves(start.prog, "LWL", "LWR")
           /\ start.prog[1].rt \notin {0, start.prog[1].rs}) =>
             LET a == AddressOf(start.prog, "LWR")
             IN  /\ \A j \in 0 .. 3 : ByteOf(reg[start.prog[1].rt], j)
                                       = mem[PhysOf(a + j)]
                 /\ mem = start.mem
       /\ Halves(start.prog, "SWL", "SWR") =>
             LET a == AddressOf(start.prog, "SWR")
             IN  /\ \A j \in 0 .. 3 : mem[PhysOf(a + j)]
                                       = ByteOf(reg[start.prog[1].rt], j)
                 /\ \A q \in Phys \ {PhysOf(a + j) : j \in 0 .. 3} :
                       mem[q] = start.mem[q]
                 /\ reg = start.reg

I == INSTANCE Isa WITH Base <- pow2[ByteBits], isolated <- start.isc

(* An instruction that faults has done nothing, and one that is done has   *)
(* done what the manual says, byte by byte: shifts and masks of whole      *)
(* words amount to that, for every size, address and order of faults       *)
(* (cpu.c:1589-1743).                                                      *)
ImplementsIsa == I!Spec
=============================================================================
