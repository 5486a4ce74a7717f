-------------------------------- MODULE Fpu --------------------------------
(***************************************************************************)
(* The floating point unit of the emulated processor (emulator/fpu/fpu.c): *)
(* fpuOp as an operator on the state of the unit.  Of the numbers that     *)
(* words stand for there is left what the code tells apart: zero, not a    *)
(* number, and the others.  What arithmetic and conversions give is open.  *)
(*                                                                         *)
(* The control register is decoded: the condition, and the sets of causes, *)
(* flags and enables.  "OTHER" stands for overflow, underflow and inexact, *)
(* which the code treats alike.  The rounding mode only selects results.   *)
(***************************************************************************)
EXTENDS Integers

CONSTANTS Pairs,  \* 16: pairs of registers, each of which may hold a double
          Val,    \* words
          Zero,   \* the word 0
          Single, \* the kind of number a word is as a float
          Double  \* and two words, the low one first, are as a double

FReg == 0 .. 2 * Pairs - 1

Number == {"zero", "number", "nan"}
Exception == {"INVAL", "DIV0", "OTHER"}
Fcr == [c : BOOLEAN, cause : SUBSET (Exception \cup {"UNIMPL"}),
        flags : SUBSET Exception, enables : SUBSET Exception]
FpuState == [f : [FReg -> Val], fcr : Fcr]

Cleared == [f |-> [n \in FReg |-> Zero],
            fcr |-> [c |-> FALSE, cause |-> {}, flags |-> {}, enables |-> {}]]
-----------------------------------------------------------------------------
(* d[n / 2] is the registers from Low(n) on, the low word first. *)
Low(n) == 2 * (n \div 2)

(* The words of a number. *)
Held(u, fmt, n) == IF fmt = "D" THEN <<u.f[Low(n)], u.f[Low(n) + 1]>>
                                ELSE <<u.f[n]>>

Operand(u, fmt, n) == IF fmt = "D" THEN Double[u.f[Low(n)], u.f[Low(n) + 1]]
                                   ELSE Single[u.f[n]]

SetPair(u, n, low, high) ==
    [u EXCEPT !.f[Low(n)] = low, !.f[Low(n) + 1] = high]

(* The states in which register n holds a number of these kinds. *)
Given(u, fmt, n, kinds) ==
    IF fmt = "D"
      THEN {SetPair(u, n, w[1], w[2]) :
              w \in {w \in Val \X Val : Double[w] \in kinds}}
      ELSE {[u EXCEPT !.f[n] = v] : v \in {v \in Val : Single[v] \in kinds}}

(* What an instruction moves out of the unit, if anything. *)
Nothing == [words |-> <<>>, fcr |-> Cleared.fcr]
OfWords(ws) == [words |-> ws, fcr |-> Cleared.fcr]
OfFcr(w) == [words |-> <<"fcr">>, fcr |-> w]

(* An outcome: what fpuOp returns, what goes to the general register, and  *)
(* the unit after it.                                                      *)
Returns(ret, r, u) == [ret |-> ret, r |-> r, fpu |-> u]
Done(S) == {Returns("done", Nothing, u) : u \in S}

(* The label inval: an operation that is left to the kernel. *)
Unimplemented(u) ==
    Returns("trap", Nothing, [u EXCEPT !.fcr.cause = @ \cup {"UNIMPL"}])

(* Mutant: the flags show the last exception only. *)
Flagged_last(u, e) ==
    [u EXCEPT !.fcr.cause = @ \cup {e}, !.fcr.flags = {e}]

Flagged(u, e) ==
    [u EXCEPT !.fcr.cause = @ \cup {e}, !.fcr.flags = @ \cup {e}]
-----------------------------------------------------------------------------
(* An instruction names operation, format and registers; a branch has the  *)
(* condition and whether it is "likely" in tf and likely, a comparison the *)
(* relations it asks for in mask, and whether it signals.                  *)

Divided(i, u) ==
    LET zero == Operand(u, i.fmt, i.t) = "zero"
        v    == IF zero THEN Flagged(u, "DIV0") ELSE u
    IN  IF zero /\ "DIV0" \in v.fcr.enables
          THEN {Returns("trap", Nothing, v)}
          ELSE Done(Given(v, i.fmt, i.d, Number))

(* The file is compiled with Ofast, which lets the compiler take isnan for *)
(* false and then find anything of s == t and s < t.                       *)
Relations(s, t) ==
    CASE "nan" \in {s, t} -> {{"un"}} \cup SUBSET {"eq", "lt"}
      [] s = "zero" /\ t = "zero" -> {{"eq"}}
      [] s = "number" /\ t = "number" -> {{}, {"eq"}, {"lt"}}
      [] OTHER -> {{}, {"lt"}}

Compared(i, u) ==
    {IF "un" \in cond /\ i.signal
       THEN Returns("trap", Nothing, Flagged(u, "INVAL"))
       ELSE Returns("done", Nothing, [u EXCEPT !.fcr.c = i.mask \cap cond # {}])
     : cond \in Relations(Operand(u, i.fmt, i.s), Operand(u, i.fmt, i.t))}

(* Moves between the general register x and the unit. *)
Moved(i, x, u) ==
    CASE i.op = "MFC" -> {Returns("done", OfWords(Held(u, "W", i.s)), u)}
      [] i.op = "MTC" -> Done({[u EXCEPT !.f[i.s] = x]})
      [] i.op = "CFC" /\ i.s = 31 -> {Returns("done", OfFcr(u.fcr), u)}
      [] i.op = "CTC" /\ i.s = 31 -> Done({[u EXCEPT !.fcr = x]})
      [] i.op \in {"CFC", "CTC"} /\ i.s \in {0, 30} -> Done({u})
      [] OTHER -> {Unimplemented(u)}

Branched(i, u) ==
    {Returns(IF u.fcr.c = i.tf THEN "taken"
             ELSE IF i.likely THEN "skip" ELSE "done", Nothing, u)}

(* Addition, subtraction and multiplication, of which those of integers    *)
(* return before the label inval.                                          *)
Computed(i, u) == IF i.fmt = "W" THEN {Returns("inval", Nothing, u)}
                                 ELSE Done(Given(u, i.fmt, i.d, Number))

(* ABS, MOV and NEG. *)
Copied(i, u) == Done(Given(u, i.fmt, i.d, {Operand(u, i.fmt, i.s)}))

(* ROUND to FLOOR, and CVT.W. *)
ToWord(i, u) == Done(Given(u, "W", i.d, Number))

(* CVT.S and CVT.D. *)
ToSingle(i, u) == Done(Given(u, "S", i.d, Number))
ToDouble(i, u) == Done(Given(u, "D", i.d, Number))

Executed(i, x, u) ==
    CASE i.op \in {"MFC", "MTC", "CFC", "CTC"} -> Moved(i, x, u)
      [] i.op = "BC" -> Branched(i, u)
      [] i.op \in {"ADD", "SUB", "MUL"} -> Computed(i, u)
      [] i.op = "DIV" /\ i.fmt # "W" -> Divided(i, u)
      [] i.op \in {"ABS", "MOV", "NEG"} /\ i.fmt # "W" -> Copied(i, u)
      [] i.op = "TOW" /\ i.fmt # "W" -> ToWord(i, u)
      [] i.op = "CVTS" /\ i.fmt # "S" -> ToSingle(i, u)
      [] i.op = "CVTD" /\ i.fmt # "D" -> ToDouble(i, u)
      [] i.op = "CMP" /\ i.fmt # "W" -> Compared(i, u)
      [] OTHER -> {Unimplemented(u)}

(* Traps the unit cannot take itself. *)
Unsupported == {"INVAL", "OTHER"}

Locked(u) == u.fcr.enables \cap Unsupported # {}

(* Mutant: a trap the unit takes itself is refused too. *)
Refuses_all(i, u) == u.fcr.enables # {}

(* Mutant: the control register can still be written. *)
Refuses_reads(i, u) == Locked(u) /\ i.op # "CTC"

(* Once one is enabled every instruction is left to the kernel. *)
Refuses(i, u) == Locked(u)

fpuOp(i, x, u) ==
    IF Refuses(i, u) THEN {Unimplemented(u)}
                     ELSE Executed(i, x, [u EXCEPT !.fcr.cause = {}])
=============================================================================
