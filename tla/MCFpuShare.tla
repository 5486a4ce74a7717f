----------------------------- MODULE MCFpuShare -----------------------------
(* An instance of FpuShare for TLC: two processes and one pair of          *)
(* registers.                                                              *)
EXTENDS FpuShare

(* A word is named for what it is as a float.  A double is what its high   *)
(* word is, but zero only if both its words are.                           *)
KindOf == [v \in Val |-> v]
KindOfPair ==
    [w \in Val \X Val |-> IF w[2] = "zero" /\ w[1] # "zero" THEN "number"
                                                           ELSE w[2]]

Ops(op, fmts) == {[op |-> op, fmt |-> fmt, s |-> 0, t |-> 1, d |-> 1] :
                    fmt \in fmts}

(* An odd register of a double among them. *)
EveryInstr ==
    Ops("ADD", {"S", "W"}) \cup Ops("DIV", {"S", "D", "W"})
      \cup Ops("MOV", {"S", "D"}) \cup Ops("TOW", {"D"})
      \cup Ops("CVTS", {"S", "D"}) \cup Ops("CVTD", {"S"})
      \cup {[op |-> op, s |-> n] : op \in {"MFC", "MTC"}, n \in FReg}
      \cup {[op |-> op, s |-> n] : op \in {"CFC", "CTC"}, n \in {0, 31}}
      \cup {[op |-> "BC", tf |-> TRUE, likely |-> l] : l \in BOOLEAN}
      \cup {[op |-> "CMP", fmt |-> fmt, s |-> 0, t |-> 1, mask |-> m,
             signal |-> g] :
              fmt \in {"S", "D"}, m \in {{"un", "eq"}, {"lt"}}, g \in BOOLEAN}
      \cup {[op |-> "SQRT", fmt |-> "S"], [op |-> "CMP", fmt |-> "W"]}

CONSTANT p, q

(* One process executes anything, the other looks at what it has. *)
AnyAndFew ==
    [r \in {p, q} |-> IF r = p THEN EveryInstr
                      ELSE {[op |-> "MFC", s |-> 0], [op |-> "CFC", s |-> 31]}
                             \cup Ops("DIV", {"S"})]

Enabling(S) == [Cleared.fcr EXCEPT !.enables = S]
FewWords == {Cleared.fcr, Enabling({"DIV0"}), Enabling({"OTHER"})}
=============================================================================
