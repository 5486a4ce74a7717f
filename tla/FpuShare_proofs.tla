--------------------------- MODULE FpuShare_proofs ---------------------------
(***************************************************************************)
(* Theorems about the floating point unit and the processes that share it, *)
(* for any number of processes and registers, any instructions, and any    *)
(* order of switches and traps.                                            *)
(***************************************************************************)
EXTENDS FpuShare, TLAPS

(* Instructions do what they do to the unit whatever causes it shows.      *)
LEMMA RefusedOrNot ==
    ASSUME NEW i, NEW x, NEW u, NEW o \in fpuOp(i, x, u)
    PROVE  \/ Locked(u) /\ o = Unimplemented(u)
           \/ ~ Locked(u) /\ o \in Executed(i, x, [u EXCEPT !.fcr.cause = {}])
BY DEF fpuOp, Refuses

LEMMA ClearedFits == Cleared \in FpuState
BY FpuShareAssumption DEF Cleared, FpuState, Fcr

LEMMA WithoutCause ==
    ASSUME NEW u \in FpuState
    PROVE  LET v == [u EXCEPT !.fcr.cause = {}]
           IN  /\ v \in FpuState
               /\ v.f = u.f
               /\ v.fcr.c = u.fcr.c /\ v.fcr.cause = {}
               /\ v.fcr.flags = u.fcr.flags /\ v.fcr.enables = u.fcr.enables
BY DEF FpuState, Fcr

LEMMA UnimplementedKeeps ==
    ASSUME NEW u \in FpuState
    PROVE  LET o == Unimplemented(u)
           IN  /\ o.ret = "trap" /\ o.r = Nothing
               /\ o.fpu \in FpuState
               /\ o.fpu.f = u.f /\ o.fpu.fcr.c = u.fcr.c
               /\ o.fpu.fcr.flags = u.fcr.flags
               /\ o.fpu.fcr.enables = u.fcr.enables
BY DEF Unimplemented, Returns, FpuState, Fcr

LEMMA FlaggedKeeps ==
    ASSUME NEW u \in FpuState, NEW e \in Exception
    PROVE  /\ Flagged(u, e) \in FpuState
           /\ Flagged(u, e).fcr.enables = u.fcr.enables
           /\ u.fcr.flags \subseteq Flagged(u, e).fcr.flags
BY DEF Flagged, FpuState, Fcr

LEMMA GivenFits ==
    ASSUME NEW u \in FpuState, NEW fmt, NEW n, NEW kinds,
           NEW v \in Given(u, fmt, n, kinds)
    PROVE  v \in FpuState /\ v.fcr = u.fcr
<1>1. CASE fmt = "D"
    <2>1. PICK w \in Val \X Val : v = SetPair(u, n, w[1], w[2])
        BY <1>1 DEF Given
    <2>. QED  BY <2>1 DEF SetPair, FpuState
<1>2. CASE fmt # "D"
    <2>1. PICK w \in Val : v = [u EXCEPT !.f[n] = w]
        BY <1>2 DEF Given
    <2>. QED  BY <2>1 DEF FpuState
<1>. QED  BY <1>1, <1>2

(* What an outcome may do: registers keep their types, and only CTC1 takes *)
(* a flag away or changes what is enabled.                                 *)
Tame(i, u, v) == /\ v \in FpuState
                 /\ i.op # "CTC" => /\ u.fcr.flags \subseteq v.fcr.flags
                                    /\ v.fcr.enables = u.fcr.enables

LEMMA DoneTame ==
    ASSUME NEW u \in FpuState, NEW i, NEW S,
           \A v \in S : Tame(i, u, v), NEW o \in Done(S)
    PROVE  Tame(i, u, o.fpu)
BY DEF Done, Returns

LEMMA GivenTame ==
    ASSUME NEW u \in FpuState, NEW v \in FpuState, NEW i, Tame(i, u, v),
           NEW fmt, NEW n, NEW kinds, NEW o \in Done(Given(v, fmt, n, kinds))
    PROVE  Tame(i, u, o.fpu)
<1>1. PICK w \in Given(v, fmt, n, kinds) : o.fpu = w
    BY DEF Done, Returns
<1>2. w \in FpuState /\ w.fcr = v.fcr
    BY GivenFits
<1>. QED  BY <1>1, <1>2 DEF Tame

LEMMA DividedTame ==
    ASSUME NEW u \in FpuState, NEW i, NEW o \in Divided(i, u)
    PROVE  Tame(i, u, o.fpu)
<1>1. PICK v \in {u, Flagged(u, "DIV0")} :
         o = Returns("trap", Nothing, v) \/ o \in Done(Given(v, i.fmt, i.d, Number))
    BY DEF Divided
<1>2. Tame(i, u, v) /\ v \in FpuState
    BY FlaggedKeeps DEF Tame, Exception
<1>3. CASE o = Returns("trap", Nothing, v)
    BY <1>2, <1>3 DEF Returns
<1>4. CASE o \in Done(Given(v, i.fmt, i.d, Number))
    BY <1>2, <1>4, GivenTame
<1>. QED  BY <1>1, <1>3, <1>4

LEMMA ComparedTame ==
    ASSUME NEW u \in FpuState, NEW i, NEW o \in Compared(i, u)
    PROVE  Tame(i, u, o.fpu)
<1>1. PICK cond : \/ o = Returns("trap", Nothing, Flagged(u, "INVAL"))
                  \/ o = Returns("done", Nothing,
                                 [u EXCEPT !.fcr.c = i.mask \cap cond # {}])
    BY DEF Compared
<1>2. CASE o = Returns("trap", Nothing, Flagged(u, "INVAL"))
    BY <1>2, FlaggedKeeps DEF Tame, Returns, Exception
<1>3. CASE o = Returns("done", Nothing, [u EXCEPT !.fcr.c = i.mask \cap cond # {}])
    <2>. DEFINE b == i.mask \cap cond # {}
                v == [u EXCEPT !.fcr.c = b]
    <2>1. b \in BOOLEAN
        OBVIOUS
    <2>. HIDE DEF b
    <2>2. v \in FpuState /\ v.fcr.flags = u.fcr.flags /\ v.fcr.enables = u.fcr.enables
        BY <2>1 DEF FpuState, Fcr
    <2>3. o.fpu = v
        BY <1>3 DEF Returns, b
    <2>. QED  BY <2>2, <2>3 DEF Tame
<1>. QED  BY <1>1, <1>2, <1>3

LEMMA ExecutedTame ==
    ASSUME NEW u \in FpuState, NEW i, NEW x,
           i.op = "MTC" => x \in Val, i.op = "CTC" => x \in Fcr,
           NEW o \in Executed(i, x, u)
    PROVE  Tame(i, u, o.fpu)
<1>0. Tame(i, u, u)
    BY DEF Tame
<1>1. CASE o.fpu = u
    BY <1>0, <1>1
<1>2. CASE i.op = "MTC" /\ o.fpu = [u EXCEPT !.f[i.s] = x]
    BY <1>2 DEF Tame, FpuState
<1>3. CASE i.op = "CTC" /\ o.fpu = [u EXCEPT !.fcr = x]
    BY <1>3 DEF Tame, FpuState
<1>4. CASE \E fmt \in {"S", "D", "W", i.fmt} : o \in Done(Given(u, fmt, i.d, Number))
    BY <1>0, <1>4, GivenTame
<1>9. CASE /\ i.op \in {"ABS", "MOV", "NEG"}
           /\ o \in Done(Given(u, i.fmt, i.d, {Operand(u, i.fmt, i.s)}))
    BY <1>0, <1>9, GivenTame
<1>5. CASE o \in Divided(i, u)
    BY <1>5, DividedTame
<1>6. CASE o \in Compared(i, u)
    BY <1>6, ComparedTame
<1>7. CASE o = Unimplemented(u)
    BY <1>7, UnimplementedKeeps DEF Tame
<1>8. \/ o.fpu = u
      \/ i.op = "MTC" /\ o.fpu = [u EXCEPT !.f[i.s] = x]
      \/ i.op = "CTC" /\ o.fpu = [u EXCEPT !.fcr = x]
      \/ \E fmt \in {"S", "D", "W", i.fmt} : o \in Done(Given(u, fmt, i.d, Number))
      \/ /\ i.op \in {"ABS", "MOV", "NEG"}
         /\ o \in Done(Given(u, i.fmt, i.d, {Operand(u, i.fmt, i.s)}))
      \/ o \in Divided(i, u)
      \/ o \in Compared(i, u)
      \/ o = Unimplemented(u)
    <2>1. CASE i.op = "MFC"
        BY <2>1 DEF Executed, Moved, Returns
    <2>2. CASE i.op = "MTC"
        BY <2>2 DEF Executed, Moved, Returns, Done
    <2>3. CASE i.op = "CFC"
        BY <2>3 DEF Executed, Moved, Returns, Done
    <2>4. CASE i.op = "CTC"
        BY <2>4 DEF Executed, Moved, Returns, Done
    <2>5. CASE i.op = "BC"
        BY <2>5 DEF Executed, Branched, Returns
    <2>6. CASE i.op \in {"ADD", "SUB", "MUL"}
        BY <2>6 DEF Executed, Computed, Returns
    <2>7. CASE i.op = "DIV"
        BY <2>7 DEF Executed
    <2>8. CASE i.op \in {"ABS", "MOV", "NEG"}
        BY <2>8 DEF Executed, Copied
    <2>9. CASE i.op = "TOW"
        <3>1. CASE i.fmt = "W"
            BY <2>9, <3>1 DEF Executed
        <3>2. CASE i.fmt # "W"
            <4>1. o \in Done(Given(u, "W", i.d, Number))
                BY <2>9, <3>2 DEF Executed, ToWord
            <4>. QED  BY <4>1
        <3>. QED  BY <3>1, <3>2
    <2>12. CASE i.op = "CVTS"
        BY <2>12 DEF Executed, ToSingle
    <2>13. CASE i.op = "CVTD"
        <3>1. CASE i.fmt = "D"
            BY <2>13, <3>1 DEF Executed
        <3>2. CASE i.fmt # "D"
            <4>1. o \in Done(Given(u, "D", i.d, Number))
                BY <2>13, <3>2 DEF Executed, ToDouble
            <4>. QED  BY <4>1
        <3>. QED  BY <3>1, <3>2
    <2>10. CASE i.op = "CMP"
        BY <2>10 DEF Executed
    <2>11. CASE i.op \notin {"MFC", "MTC", "CFC", "CTC", "BC", "ADD", "SUB", "MUL",
                             "DIV", "ABS", "MOV", "NEG", "TOW", "CVTS", "CVTD",
                             "CMP"}
        BY <2>11 DEF Executed
    <2>. QED  BY <2>1, <2>2, <2>3, <2>4, <2>5, <2>6, <2>7, <2>8, <2>9, <2>10, <2>11,
              <2>12, <2>13
<1>. QED  BY <1>1, <1>2, <1>3, <1>4, <1>5, <1>6, <1>7, <1>8, <1>9

(* The same of a call of fpuOp, whose first act is to clear the causes.    *)
LEMMA fpuOpTame ==
    ASSUME NEW u \in FpuState, NEW i, NEW x,
           i.op = "MTC" => x \in Val, i.op = "CTC" => x \in Fcr,
           NEW o \in fpuOp(i, x, u)
    PROVE  Tame(i, u, o.fpu)
<1>1. CASE Locked(u) /\ o = Unimplemented(u)
    BY <1>1, UnimplementedKeeps DEF Tame
<1>2. CASE ~ Locked(u) /\ o \in Executed(i, x, [u EXCEPT !.fcr.cause = {}])
    <2>. DEFINE v == [u EXCEPT !.fcr.cause = {}]
    <2>1. v \in FpuState /\ v.fcr.flags = u.fcr.flags /\ v.fcr.enables = u.fcr.enables
        BY WithoutCause
    <2>. HIDE DEF v
    <2>2. o \in Executed(i, x, v)
        BY <1>2 DEF v
    <2>3. Tame(i, v, o.fpu)
        BY <2>1, <2>2, ExecutedTame
    <2>. QED  BY <2>1, <2>3 DEF Tame
<1>. QED  BY <1>1, <1>2, RefusedOrNot

LEMMA LockStays ==
    ASSUME NEW u \in FpuState, Locked(u), NEW i, NEW x, NEW o \in fpuOp(i, x, u)
    PROVE  o = Unimplemented(u) /\ Locked(o.fpu) /\ o.ret = "trap"
BY RefusedOrNot, UnimplementedKeeps DEF Locked

(* The kernel's two instructions are refused, or they copy.                *)
LEMMA KernelReads ==
    ASSUME NEW u \in FpuState, NEW o \in fpuOp(ReadControl, {}, u), ~ Locked(u)
    PROVE  LET v == [u EXCEPT !.fcr.cause = {}]
           IN  o = Returns("done", OfFcr(v.fcr), v)
<1>. DEFINE v == [u EXCEPT !.fcr.cause = {}]
<1>1. o \in Executed(ReadControl, {}, v)
    BY RefusedOrNot
<1>2. ReadControl.op = "CFC" /\ ReadControl.s = 31
    BY DEF ReadControl
<1>. HIDE DEF v
<1>3. Executed(ReadControl, {}, v) = {Returns("done", OfFcr(v.fcr), v)}
    BY <1>2 DEF Executed, Moved
<1>. QED  BY <1>1, <1>3 DEF v

LEMMA KernelWrites ==
    ASSUME NEW u \in FpuState, NEW w \in Fcr,
           NEW o \in fpuOp(WriteControl, w, u), ~ Locked(u)
    PROVE  o.ret = "done" /\ o.fpu = [u EXCEPT !.fcr = w]
<1>. DEFINE v == [u EXCEPT !.fcr.cause = {}]
<1>1. o \in Executed(WriteControl, w, v)
    BY RefusedOrNot
<1>2. WriteControl.op = "CTC" /\ WriteControl.s = 31
    BY DEF WriteControl
<1>. HIDE DEF v
<1>3. Executed(WriteControl, w, v) = Done({[v EXCEPT !.fcr = w]})
    BY <1>2 DEF Executed, Moved
<1>4. o.ret = "done" /\ o.fpu = [v EXCEPT !.fcr = w]
    BY <1>1, <1>3 DEF Done, Returns
<1>5. v \in FpuState /\ v.f = u.f
    BY WithoutCause DEF v
<1>6. [v EXCEPT !.fcr = w] = [f |-> v.f, fcr |-> w]
    BY <1>5 DEF FpuState
<1>7. [u EXCEPT !.fcr = w] = [f |-> u.f, fcr |-> w]
    BY DEF FpuState
<1>. QED  BY <1>4, <1>5, <1>6, <1>7

LEMMA NoCauseIs ==
    ASSUME NEW u \in FpuState
    PROVE  /\ NoCause(u) = [f |-> u.f,
                            fcr |-> [c |-> u.fcr.c, cause |-> {},
                                     flags |-> u.fcr.flags,
                                     enables |-> u.fcr.enables]]
           /\ NoCause(u) = [u EXCEPT !.fcr.cause = {}]
           /\ NoCause(u) \in FpuState
<1>1. NoCause(u) = [u EXCEPT !.fcr.cause = {}]
    BY DEF NoCause
<1>2. NoCause(u) \in FpuState
    BY <1>1, WithoutCause
<1>3. [u EXCEPT !.fcr.cause = {}]
        = [f |-> u.f, fcr |-> [u.fcr EXCEPT !.cause = {}]]
    BY DEF FpuState
<1>4. [u.fcr EXCEPT !.cause = {}]
        = [c |-> u.fcr.c, cause |-> {}, flags |-> u.fcr.flags,
           enables |-> u.fcr.enables]
    BY DEF FpuState, Fcr
<1>. QED  BY <1>1, <1>2, <1>3, <1>4

LEMMA SameButCause ==
    ASSUME NEW u \in FpuState, NEW v \in FpuState,
           u.f = v.f, u.fcr.c = v.fcr.c, u.fcr.flags = v.fcr.flags,
           u.fcr.enables = v.fcr.enables
    PROVE  NoCause(u) = NoCause(v)
BY NoCauseIs, ZenonT(40)
-----------------------------------------------------------------------------
(* While the kernel lives, CU1 says that the unit holds the registers of   *)
(* the process that runs; a copy that has been loaded is forgotten.        *)
Holds == panic \/ (cu1 <=> owner = running)

ShareInv == TypeOK /\ Holds /\ KernelGetsThrough

LEMMA InputsFit ==
    ASSUME NEW i, NEW x \in Inputs(i)
    PROVE  /\ i.op = "MTC" => x \in Val
           /\ i.op = "CTC" => x \in Fcr
BY FpuShareAssumption DEF Inputs

LEMMA Cop1Tame ==
    ASSUME ShareInv, Cop1
    PROVE  \E i \in Instrs[running] : \E x \in Inputs(i) : \E o \in fpuOp(i, x, fpu) :
              /\ fpu' = o.fpu
              /\ Tame(i, fpu, fpu')
              /\ Locked(fpu) => Locked(fpu')
              /\ Shows(i.op = "CTC", o.ret, o.r)
<1>0. PICK i \in Instrs[running] :
         \E x \in Inputs(i) : \E o \in fpuOp(i, x, fpu) :
            fpu' = o.fpu /\ Shows(i.op = "CTC", o.ret, o.r)
    BY DEF Cop1
<1>5. PICK x \in Inputs(i) :
         \E o \in fpuOp(i, x, fpu) :
            fpu' = o.fpu /\ Shows(i.op = "CTC", o.ret, o.r)
    BY <1>0
<1>1. PICK o \in fpuOp(i, x, fpu) :
         fpu' = o.fpu /\ Shows(i.op = "CTC", o.ret, o.r)
    BY <1>5
<1>2. fpu \in FpuState /\ running \in Proc
    BY DEF ShareInv, TypeOK
<1>4. Tame(i, fpu, fpu')
    BY <1>1, <1>2, InputsFit, fpuOpTame
<1>. QED  BY <1>1, <1>2, <1>4, LockStays

LEMMA LoadTame ==
    ASSUME ShareInv, LoadC1
    PROVE  fpu' \in FpuState /\ fpu'.fcr = fpu.fcr
BY GivenFits DEF LoadC1, ShareInv, TypeOK

(* What the kernel does: it dies of an exception, with the unit locked, or *)
(* it loads what it has saved.                                             *)
LEMMA AcquireDoes ==
    ASSUME ShareInv, Acquire
    PROVE  /\ ~ panic /\ ~ cu1 /\ cu1' = TRUE /\ running' = running
           /\ shown' = Quiet /\ running \in Proc
           /\ \/ /\ panic' = TRUE
                 /\ Locked(fpu) /\ Locked(fpu')
                 /\ fpu' \in FpuState
                 /\ NoCause(fpu') = NoCause(fpu)
                 /\ UNCHANGED <<owner, saved>>
              \/ /\ ~ Locked(fpu)
                 /\ fpu' = saved[running]
                 /\ owner' = running
                 /\ owner # running
                 /\ saved' = [r \in Proc |-> CASE r = owner -> NoCause(fpu)
                                               [] r = running -> Cleared
                                               [] OTHER -> saved[r]]
                 /\ UNCHANGED panic
<1>. USE DEF ShareInv, TypeOK
<1>1. PICK out \in (IF owner = Nobody THEN {Returns("done", Nothing, fpu)}
                                      ELSE fpuOp(ReadControl, {}, fpu)) :
         \E in \in fpuOp(WriteControl, saved[running].fcr,
                          [out.fpu EXCEPT !.f = saved[running].f]) :
         IF "trap" \in {out.ret, in.ret}
           THEN /\ panic' = TRUE
                /\ fpu' = out.fpu
                /\ UNCHANGED <<owner, saved>>
           ELSE /\ fpu' = in.fpu
                /\ owner' = running
                /\ saved' = [r \in Proc |->
                                CASE r = owner -> [f |-> out.fpu.f,
                                                   fcr |-> out.r.fcr]
                                  [] r = running -> Cleared
                                  [] OTHER -> saved[r]]
                /\ UNCHANGED panic
    BY DEF Acquire
<1>6. PICK in \in fpuOp(WriteControl, saved[running].fcr,
                     [out.fpu EXCEPT !.f = saved[running].f]) :
         IF "trap" \in {out.ret, in.ret}
           THEN /\ panic' = TRUE
                /\ fpu' = out.fpu
                /\ UNCHANGED <<owner, saved>>
           ELSE /\ fpu' = in.fpu
                /\ owner' = running
                /\ saved' = [r \in Proc |->
                                CASE r = owner -> [f |-> out.fpu.f,
                                                   fcr |-> out.r.fcr]
                                  [] r = running -> Cleared
                                  [] OTHER -> saved[r]]
                /\ UNCHANGED panic
    BY <1>1
<1>2. /\ ~ panic /\ ~ cu1 /\ cu1' = TRUE /\ running' = running /\ shown' = Quiet
      /\ owner # running
    BY DEF Acquire, Holds
<1>3. saved[running] \in FpuState /\ saved[running].fcr \in Fcr
    BY DEF FpuState
<1>. DEFINE v == [out.fpu EXCEPT !.f = saved[running].f]
<1>4. CASE Locked(fpu)
    <2>1. out.fpu \in FpuState /\ Locked(out.fpu) /\ NoCause(out.fpu) = NoCause(fpu)
        <3>1. CASE owner = Nobody
            BY <1>1, <1>6, <1>4, <3>1 DEF Returns
        <3>2. CASE owner # Nobody
            <4>1. out \in fpuOp(ReadControl, {}, fpu)
                BY <1>1, <3>2
            <4>2. out = Unimplemented(fpu) /\ Locked(out.fpu)
                BY <1>4, <4>1, LockStays
            <4>3. out.fpu \in FpuState
                BY <4>2, UnimplementedKeeps
            <4>4. /\ out.fpu.f = fpu.f /\ out.fpu.fcr.c = fpu.fcr.c
                  /\ out.fpu.fcr.flags = fpu.fcr.flags
                  /\ out.fpu.fcr.enables = fpu.fcr.enables
                BY <4>2, UnimplementedKeeps
            <4>5. NoCause(out.fpu) = NoCause(fpu)
                BY <4>3, <4>4, SameButCause
            <4>. QED  BY <4>2, <4>3, <4>5
        <3>. QED  BY <3>1, <3>2
    <2>2. v \in FpuState /\ Locked(v)
        BY <1>3, <2>1 DEF FpuState, Locked
    <2>3. in.ret = "trap"
        BY <1>1, <1>6, <2>2, LockStays
    <2>. QED  BY <1>1, <1>6, <1>2, <1>4, <2>1, <2>3
<1>5. CASE ~ Locked(fpu)
    <2>1. /\ out.fpu = fpu \/ out.fpu = NoCause(fpu)
          /\ out.ret = "done"
          /\ owner # Nobody => out.r.fcr = NoCause(fpu).fcr /\ out.fpu.f = fpu.f
        <3>1. CASE owner = Nobody
            BY <1>1, <1>6, <3>1 DEF Returns
        <3>2. CASE owner # Nobody
            <4>1. out \in fpuOp(ReadControl, {}, fpu)
                BY <1>1, <3>2
            <4>2. out = Returns("done", OfFcr(NoCause(fpu).fcr), NoCause(fpu))
                BY <1>5, <4>1, KernelReads DEF NoCause
            <4>. QED  BY <4>2, NoCauseIs DEF Returns, OfFcr
        <3>. QED  BY <3>1, <3>2
    <2>2. v \in FpuState /\ ~ Locked(v)
        BY <1>3, <1>5, <2>1, SMTT(40) DEF FpuState, Locked, NoCause, Fcr
    <2>3. in.ret = "done" /\ in.fpu = [v EXCEPT !.fcr = saved[running].fcr]
        <3>1. in \in fpuOp(WriteControl, saved[running].fcr, v)
            BY <1>6
        <3>. HIDE DEF v
        <3>. QED  BY <1>3, <2>2, <3>1, KernelWrites
    <2>4. in.fpu = saved[running]
        <3>1. out.fpu \in FpuState
            BY <2>1, NoCauseIs
        <3>2. v.f = saved[running].f
            BY <3>1 DEF FpuState
        <3>. HIDE DEF v
        <3>3. [v EXCEPT !.fcr = saved[running].fcr]
                = [f |-> v.f, fcr |-> saved[running].fcr]
            BY <2>2 DEF FpuState
        <3>4. saved[running] = [f |-> saved[running].f, fcr |-> saved[running].fcr]
            BY <1>3 DEF FpuState
        <3>. QED  BY <2>3, <3>2, <3>3, <3>4
    <2>5. Nobody \notin Proc
        BY FpuShareAssumption DEF Nobody
    <2>6. owner \in Proc => [f |-> out.fpu.f, fcr |-> out.r.fcr] = NoCause(fpu)
        <3>1. owner \in Proc => out.r.fcr = NoCause(fpu).fcr /\ out.fpu.f = fpu.f
            BY <2>1, <2>5
        <3>. QED  BY <3>1, NoCauseIs
    <2>7. saved' = [r \in Proc |-> CASE r = owner -> NoCause(fpu)
                                     [] r = running -> Cleared
                                     [] OTHER -> saved[r]]
        <3>1. ASSUME NEW r \in Proc
              PROVE  (CASE r = owner -> [f |-> out.fpu.f, fcr |-> out.r.fcr]
                        [] r = running -> Cleared
                        [] OTHER -> saved[r])
                     = (CASE r = owner -> NoCause(fpu)
                          [] r = running -> Cleared
                          [] OTHER -> saved[r])
            BY <1>2, <2>6
        <3>2. saved' = [r \in Proc |->
                                CASE r = owner -> [f |-> out.fpu.f,
                                                   fcr |-> out.r.fcr]
                                  [] r = running -> Cleared
                                  [] OTHER -> saved[r]]
            BY <1>1, <1>6, <2>1, <2>3
        <3>. QED  BY <3>1, <3>2
    <2>. QED  BY <1>1, <1>6, <1>2, <1>5, <2>1, <2>3, <2>4, <2>7
<1>. QED  BY <1>4, <1>5
-----------------------------------------------------------------------------
LEMMA InitShareInv == Init => ShareInv
<1>. SUFFICES ASSUME Init PROVE ShareInv
    OBVIOUS
<1>1. TypeOK
    BY ClearedFits DEF Init, TypeOK
<1>2. Holds
    BY FpuShareAssumption DEF Init, Holds, Nobody
<1>. QED  BY <1>1, <1>2 DEF ShareInv, KernelGetsThrough, Init

LEMMA NextShareInv ==
    ASSUME ShareInv, [Next]_vars
    PROVE  ShareInv' /\ (Locked(fpu) => Locked(fpu'))
<1>. USE DEF ShareInv, TypeOK, Holds, KernelGetsThrough
<1>1. CASE Cop1
    <2>1. fpu' \in FpuState /\ (Locked(fpu) => Locked(fpu'))
        BY <1>1, Cop1Tame DEF Tame
    <2>. QED  BY <1>1, <2>1 DEF Cop1
<1>2. CASE LoadC1
    BY <1>2, LoadTame DEF LoadC1, Locked
<1>3. CASE StoreC1
    BY <1>3 DEF StoreC1
<1>4. CASE FaultC1
    BY <1>4 DEF FaultC1
<1>5. CASE Switch
    BY <1>5 DEF Switch
<1>6. CASE Acquire
    <2>1. CASE /\ panic' = TRUE
               /\ Locked(fpu) /\ Locked(fpu')
               /\ fpu' \in FpuState
               /\ UNCHANGED <<owner, saved>>
        BY <1>6, <2>1, AcquireDoes
    <2>2. CASE /\ ~ Locked(fpu)
               /\ fpu' = saved[running]
               /\ owner' = running
               /\ saved' = [r \in Proc |-> CASE r = owner -> NoCause(fpu)
                                             [] r = running -> Cleared
                                             [] OTHER -> saved[r]]
               /\ UNCHANGED panic
        <3>1. NoCause(fpu) \in FpuState /\ fpu' \in FpuState
            BY <1>6, <2>2, AcquireDoes, NoCauseIs
        <3>2. saved' \in [Proc -> FpuState]
            BY <2>2, <3>1, ClearedFits
        <3>3. cu1' = TRUE /\ running' = running /\ ~ panic /\ running \in Proc
            BY <1>6, AcquireDoes
        <3>. QED  BY <2>2, <3>1, <3>2, <3>3
    <2>. QED  BY <1>6, <2>1, <2>2, AcquireDoes
<1>7. CASE UNCHANGED vars
    BY <1>7 DEF vars, Locked
<1>. QED  BY <1>1, <1>2, <1>3, <1>4, <1>5, <1>6, <1>7 DEF Next

(* The inductive invariant: types, whose registers the unit holds, and why *)
(* a kernel stops.                                                         *)
THEOREM ShareInvHolds == Spec => []ShareInv
BY InitShareInv, NextShareInv, PTL DEF Spec

(* The unit and what is saved of it are always words and a control         *)
(* register: no trap or conversion leaves anything else.                   *)
THEOREM TypeCorrect == Spec => []TypeOK
<1>1. ShareInv => TypeOK
    BY DEF ShareInv
<1>. QED  BY <1>1, ShareInvHolds, PTL

(* A kernel that dies of an instruction of its own has found the unit      *)
(* locked: there is no other reason.                                       *)
THEOREM OnlyLocksKill == Spec => []KernelGetsThrough
<1>1. ShareInv => KernelGetsThrough
    BY DEF ShareInv
<1>. QED  BY <1>1, ShareInvHolds, PTL

(* And nothing ever unlocks it, neither a process nor the kernel.          *)
THEOREM LocksAreForEver == Spec => StaysLocked
<1>1. ShareInv /\ [Next]_vars => [Locked(fpu) => Locked(fpu')]_vars
    BY NextShareInv
<1>. QED  BY <1>1, ShareInvHolds, PTL DEF Spec, StaysLocked
-----------------------------------------------------------------------------
(* The units that the processes believe they have.                         *)

LEMMA NoCauseTwice ==
    ASSUME NEW u \in FpuState
    PROVE  NoCause(NoCause(u)) = NoCause(u)
<1>. DEFINE v == NoCause(u)
<1>1. /\ v \in FpuState /\ v.f = u.f /\ v.fcr.c = u.fcr.c
      /\ v.fcr.flags = u.fcr.flags /\ v.fcr.enables = u.fcr.enables
    BY NoCauseIs
<1>. HIDE DEF v
<1>2. NoCause(v) = NoCause(u)
    BY <1>1, SameButCause
<1>. QED  BY <1>2 DEF v

LEMMA RunsHolds ==
    ASSUME ShareInv, NEW kind, Runs(kind)
    PROVE  owner = running /\ running \in Proc /\ fpu \in FpuState
BY DEF ShareInv, TypeOK, Holds, Runs, Usable

(* Loading and saving moves them about and changes nothing.                *)
LEMMA AcquireKeepsOwn ==
    ASSUME ShareInv, Acquire, NEW p \in Proc
    PROVE  Own(p)' = Own(p)
<1>. USE DEF ShareInv, TypeOK
<1>1. CASE panic' = TRUE /\ NoCause(fpu') = NoCause(fpu) /\ UNCHANGED <<owner, saved>>
    BY <1>1 DEF Own
<1>2. CASE /\ fpu' = saved[running]
           /\ owner' = running
           /\ owner # running
           /\ saved' = [r \in Proc |-> CASE r = owner -> NoCause(fpu)
                                         [] r = running -> Cleared
                                         [] OTHER -> saved[r]]
    <2>1. CASE p = running
        BY <1>2, <2>1 DEF Own
    <2>2. CASE p = owner
        <3>1. saved'[p] = NoCause(fpu) /\ owner' # p
            BY <1>2, <2>2
        <3>2. NoCause(NoCause(fpu)) = NoCause(fpu)
            BY NoCauseTwice
        <3>3. Own(p) = NoCause(fpu)
            BY <2>2 DEF Own
        <3>4. Own(p)' = NoCause(saved'[p])
            BY <3>1 DEF Own
        <3>. QED  BY <3>1, <3>2, <3>3, <3>4
    <2>3. CASE p # running /\ p # owner
        BY <1>2, <2>3 DEF Own
    <2>. QED  BY <2>1, <2>2, <2>3
<1>. QED  BY <1>1, <1>2, AcquireDoes

(* The other processes do not notice an instruction of the one that runs.  *)
LEMMA OthersKeepOwn ==
    ASSUME ShareInv, Cop1 \/ LoadC1, NEW p \in Proc, p # running
    PROVE  Own(p)' = Own(p)
<1>1. owner = running
    BY RunsHolds DEF Cop1, LoadC1
<1>. QED  BY <1>1 DEF Own, Cop1, LoadC1

LEMMA FlagsStickyStep ==
    ASSUME ShareInv, [Next]_vars, NEW p \in Proc
    PROVE  \/ Own(p).fcr.flags \subseteq Own(p)'.fcr.flags
           \/ shown'.proc = p /\ shown'.set
<1>. USE DEF ShareInv, TypeOK
<1>1. CASE Cop1
    <2>1. CASE p # running
        BY <1>1, <2>1, OthersKeepOwn
    <2>2. CASE p = running
        <3>1. owner = p /\ owner' = p /\ fpu \in FpuState
            BY <1>1, <2>2, RunsHolds DEF Cop1
        <3>2. PICK i : /\ Tame(i, fpu, fpu')
                       /\ \E ret, r : Shows(i.op = "CTC", ret, r)
            BY <1>1, Cop1Tame
        <3>3. fpu' \in FpuState
            BY <3>2 DEF Tame
        <3>4. /\ Own(p).fcr.flags = fpu.fcr.flags
              /\ Own(p)'.fcr.flags = fpu'.fcr.flags
            BY <3>1, <3>3, NoCauseIs DEF Own
        <3>5. CASE i.op = "CTC"
            <4>1. (i.op = "CTC") = TRUE
                BY <3>5
            <4>2. PICK ret, r : Shows(i.op = "CTC", ret, r)
                BY <3>2
            <4>3. shown' = [proc |-> running, set |-> TRUE, ret |-> ret, r |-> r]
                BY <4>1, <4>2 DEF Shows
            <4>. QED  BY <2>2, <4>3
        <3>6. CASE i.op # "CTC"
            BY <3>2, <3>4, <3>6 DEF Tame
        <3>. QED  BY <3>5, <3>6
    <2>. QED  BY <2>1, <2>2
<1>2. CASE LoadC1
    <2>1. CASE p # running
        BY <1>2, <2>1, OthersKeepOwn
    <2>2. CASE p = running
        <3>1. owner = p /\ owner' = p
            BY <1>2, <2>2, RunsHolds DEF LoadC1
        <3>2. fpu' \in FpuState /\ fpu'.fcr = fpu.fcr
            BY <1>2, LoadTame
        <3>3. Own(p) = NoCause(fpu) /\ Own(p)' = NoCause(fpu')
            BY <3>1 DEF Own
        <3>4. NoCause(fpu).fcr.flags = NoCause(fpu').fcr.flags
            BY <3>2, NoCauseIs
        <3>. QED  BY <3>3, <3>4
    <2>. QED  BY <2>1, <2>2
<1>3. CASE Acquire
    BY <1>3, AcquireKeepsOwn
<1>4. CASE StoreC1 \/ FaultC1 \/ Switch \/ UNCHANGED vars
    BY <1>4 DEF StoreC1, FaultC1, Switch, vars, Own
<1>. QED  BY <1>1, <1>2, <1>3, <1>4 DEF Next

(* No process ever loses a flag it has not taken away itself.              *)
THEOREM FlagsStay == Spec => FlagsSticky
<1>1. ShareInv /\ [Next]_vars =>
         [\A p \in Proc : \/ Own(p).fcr.flags \subseteq Own(p)'.fcr.flags
                          \/ shown'.proc = p /\ shown'.set]_vars
    BY FlagsStickyStep
<1>. QED  BY <1>1, ShareInvHolds, PTL DEF Spec, FlagsSticky
-----------------------------------------------------------------------------
(* FpuShare implements OwnFpu.  The operators of its instance are those of *)
(* this module.                                                            *)

LEMMA SameOperators ==
    /\ O!Cleared = Cleared
    /\ O!Nothing = Nothing
    /\ O!Quiet = Quiet
    /\ O!FReg = FReg
    /\ \A i : O!Inputs(i) = Inputs(i)
    /\ \A ws : O!OfWords(ws) = OfWords(ws)
    /\ \A u : O!NoCause(u) = NoCause(u)
    /\ \A u, fmt, n : O!Held(u, fmt, n) = Held(u, fmt, n)
    /\ O!Number = Number
    /\ \A u, fmt, n, kinds : O!Given(u, fmt, n, kinds) = Given(u, fmt, n, kinds)
<1>1. O!Cleared = Cleared /\ O!FReg = FReg
    BY DEF O!Cleared, Cleared, O!FReg, FReg
<1>2. O!Nothing = Nothing
    BY <1>1 DEF O!Nothing, Nothing
<1>3. O!Quiet = Quiet
    BY <1>2 DEF O!Quiet, Quiet, Nobody
<1>4. \A i : O!Inputs(i) = Inputs(i)
    BY DEF O!Inputs, Inputs
<1>5. \A ws : O!OfWords(ws) = OfWords(ws)
    BY <1>1 DEF O!OfWords, OfWords
<1>6. \A u : O!NoCause(u) = NoCause(u)
    BY DEF O!NoCause, NoCause
<1>7. \A u, fmt, n : O!Held(u, fmt, n) = Held(u, fmt, n)
    BY DEF O!Held, Held, O!Low, Low
<1>9. O!Number = Number
    BY DEF O!Number, Number
<1>8. \A u, fmt, n, kinds : O!Given(u, fmt, n, kinds) = Given(u, fmt, n, kinds)
    BY DEF O!Given, Given, O!SetPair, SetPair, O!Low, Low
<1>. QED  BY <1>1, <1>2, <1>3, <1>4, <1>5, <1>6, <1>7, <1>8, <1>9

LEMMA SameInstructions ==
    \A i, x, u : O!fpuOp(i, x, u) = fpuOp(i, x, u)
BY DEF O!fpuOp, O!Refuses, O!Locked, O!Unsupported, O!Executed, O!Moved,
       O!Branched, O!Computed,
       O!Copied, O!ToWord, O!ToSingle, O!ToDouble, O!Compared,
       O!Relations, O!Divided, O!Flagged, O!Unimplemented, O!Done, O!Returns,
       O!OfFcr, O!OfWords, O!Nothing, O!Given, O!SetPair, O!Operand, O!Held,
       O!Number, O!Low, O!Cleared, O!FReg,
       fpuOp, Refuses, Locked, Unsupported, Executed, Moved, Branched, Computed,
       Copied, ToWord, ToSingle, ToDouble, Compared,
       Relations, Divided, Flagged, Unimplemented, Done, Returns,
       OfFcr, OfWords, Nothing, Given, SetPair, Operand, Held,
       Number, Low, Cleared, FReg

(* The unit does the same whatever causes it shows, causes aside.          *)
LEMMA CausesDoNotMatter ==
    ASSUME NEW u \in FpuState, NEW i, NEW x, NEW o \in fpuOp(i, x, u)
    PROVE  \E w \in fpuOp(i, x, NoCause(u)) :
              w.ret = o.ret /\ w.r = o.r /\ NoCause(w.fpu) = NoCause(o.fpu)
<1>. DEFINE v == NoCause(u)
<1>1. v = [u EXCEPT !.fcr.cause = {}] /\ v \in FpuState /\ NoCause(v) = v
    BY NoCauseIs, NoCauseTwice
<1>2. /\ v.f = u.f /\ v.fcr.c = u.fcr.c /\ v.fcr.flags = u.fcr.flags
      /\ v.fcr.enables = u.fcr.enables
    BY NoCauseIs
<1>. HIDE DEF v
<1>3. Locked(v) <=> Locked(u)
    BY <1>2 DEF Locked
<1>4. [v EXCEPT !.fcr.cause = {}] = v
    BY <1>1 DEF NoCause
<1>5. CASE Locked(u) /\ o = Unimplemented(u)
    <2>1. Unimplemented(v) \in fpuOp(i, x, v)
        BY <1>3, <1>5 DEF fpuOp, Refuses
    <2>2. /\ Unimplemented(v).fpu.f = o.fpu.f
          /\ Unimplemented(v).fpu.fcr.c = o.fpu.fcr.c
          /\ Unimplemented(v).fpu.fcr.flags = o.fpu.fcr.flags
          /\ Unimplemented(v).fpu.fcr.enables = o.fpu.fcr.enables
          /\ Unimplemented(v).ret = o.ret /\ Unimplemented(v).r = o.r
          /\ Unimplemented(v).fpu \in FpuState /\ o.fpu \in FpuState
        BY <1>1, <1>2, <1>5, UnimplementedKeeps
    <2>3. NoCause(Unimplemented(v).fpu) = NoCause(o.fpu)
        BY <2>2, SameButCause
    <2>. QED  BY <2>1, <2>2, <2>3 DEF v
<1>6. CASE ~ Locked(u) /\ o \in Executed(i, x, [u EXCEPT !.fcr.cause = {}])
    <2>1. o \in fpuOp(i, x, v)
        BY <1>1, <1>3, <1>4, <1>6 DEF fpuOp, Refuses
    <2>. QED  BY <2>1 DEF v
<1>. QED  BY <1>5, <1>6, RefusedOrNot

(* The registers f with the two words of the double at n set.               *)
WithPair(f, n, low, high) == [f EXCEPT ![Low(n)] = low, ![Low(n) + 1] = high]

LEMMA SetPairIs ==
    ASSUME NEW u \in FpuState, NEW n, NEW low \in Val, NEW high \in Val
    PROVE  SetPair(u, n, low, high)
             = [f |-> WithPair(u.f, n, low, high), fcr |-> u.fcr]
<1>1. SetPair(u, n, low, high) \in FpuState
    BY DEF SetPair, FpuState
<1>2. SetPair(u, n, low, high).fcr = u.fcr
    BY DEF SetPair, FpuState
<1>3. SetPair(u, n, low, high).f = WithPair(u.f, n, low, high)
    BY DEF SetPair, FpuState, WithPair
<1>. QED  BY <1>1, <1>2, <1>3 DEF FpuState

LEMMA GivenToo ==
    ASSUME NEW u \in FpuState, NEW fmt, NEW n, NEW v \in Given(u, fmt, n, Number)
    PROVE  NoCause(v) \in Given(NoCause(u), fmt, n, Number)
<1>1. /\ NoCause(u) = [f |-> u.f, fcr |-> NoCause(u).fcr]
      /\ NoCause(u) \in FpuState
    BY NoCauseIs
<1>2. v \in FpuState /\ v.fcr = u.fcr
    BY GivenFits
<1>3. NoCause(v) = [f |-> v.f, fcr |-> NoCause(u).fcr]
    <2>1. NoCause(v) = [f |-> v.f, fcr |-> [c |-> v.fcr.c, cause |-> {},
                                            flags |-> v.fcr.flags,
                                            enables |-> v.fcr.enables]]
        BY <1>2, NoCauseIs
    <2>2. NoCause(u).fcr = [c |-> u.fcr.c, cause |-> {}, flags |-> u.fcr.flags,
                            enables |-> u.fcr.enables]
        BY DEF NoCause, FpuState, Fcr
    <2>. QED  BY <1>2, <2>1, <2>2
<1>4. CASE fmt = "D"
    <2>1. PICK w \in {w \in Val \X Val : Double[w] \in Number} :
             v = SetPair(u, n, w[1], w[2])
        BY <1>4 DEF Given
    <2>2. w[1] \in Val /\ w[2] \in Val
        OBVIOUS
    <2>3. v.f = WithPair(u.f, n, w[1], w[2])
        BY <2>1, <2>2, SetPairIs
    <2>4. NoCause(u).f = u.f
        BY NoCauseIs
    <2>5. SetPair(NoCause(u), n, w[1], w[2]) = NoCause(v)
        <3>1. SetPair(NoCause(u), n, w[1], w[2])
                 = [f |-> WithPair(NoCause(u).f, n, w[1], w[2]),
                    fcr |-> NoCause(u).fcr]
            BY <1>1, <2>2, SetPairIs
        <3>. QED  BY <3>1, <1>3, <2>3, <2>4
    <2>6. SetPair(NoCause(u), n, w[1], w[2]) \in Given(NoCause(u), fmt, n, Number)
        BY <1>4, <2>1 DEF Given
    <2>. QED  BY <2>5, <2>6
<1>5. CASE fmt # "D"
    <2>1. PICK w \in {w \in Val : Single[w] \in Number} : v = [u EXCEPT !.f[n] = w]
        BY <1>5 DEF Given
    <2>2. v.f = [u.f EXCEPT ![n] = w]
        BY <2>1 DEF FpuState
    <2>3. [NoCause(u) EXCEPT !.f[n] = w]
             = [f |-> [u.f EXCEPT ![n] = w], fcr |-> NoCause(u).fcr]
        BY <1>1
    <2>. QED  BY <1>3, <1>5, <2>1, <2>2, <2>3 DEF Given
<1>. QED  BY <1>4, <1>5

Owns == [p \in Proc |-> Own(p)]

LEMMA OwnIs ==
    ASSUME ShareInv, NEW kind, Runs(kind)
    PROVE  /\ running \in Proc /\ fpu \in FpuState
           /\ Owns[running] = NoCause(fpu)
BY RunsHolds DEF Owns, Own

LEMMA OwnsChange ==
    ASSUME ShareInv, Cop1 \/ LoadC1
    PROVE  Owns' = [Owns EXCEPT ![running] = NoCause(fpu')]
<1>1. owner = running /\ owner' = owner /\ running \in Proc
    BY RunsHolds DEF Cop1, LoadC1
<1>2. \A p \in Proc : p # running => Own(p)' = Own(p)
    BY OthersKeepOwn
<1>3. Own(running)' = NoCause(fpu')
    BY <1>1 DEF Own, Cop1, LoadC1
<1>. QED  BY <1>1, <1>2, <1>3 DEF Owns, Cop1, LoadC1

LEMMA OwnsStay ==
    ASSUME ShareInv, StoreC1 \/ FaultC1 \/ Switch \/ Acquire \/ UNCHANGED vars
    PROVE  Owns' = Owns
<1>1. CASE Acquire
    BY <1>1, AcquireKeepsOwn DEF Owns
<1>2. CASE StoreC1 \/ FaultC1 \/ Switch \/ UNCHANGED vars
    <2>1. UNCHANGED <<fpu, owner, saved>>
        BY <1>2 DEF StoreC1, FaultC1, Switch, vars
    <2>. QED  BY <2>1 DEF Owns, Own
<1>. QED  BY <1>1, <1>2

LEMMA InitOwn == Init => O!Init
<1>. SUFFICES ASSUME Init PROVE O!Init
    OBVIOUS
<1>1. NoCause(Cleared) = Cleared
    BY ClearedFits, NoCauseIs DEF Cleared
<1>2. \A p \in Proc : Own(p) = Cleared
    BY <1>1 DEF Own, Init
<1>. QED  BY <1>2, SameOperators DEF O!Init, Init

LEMMA Cop1Own ==
    ASSUME ShareInv, Cop1
    PROVE  O!Next
<1>1. PICK i \in Instrs[running] :
         \E x \in Inputs(i) : \E o \in fpuOp(i, x, fpu) :
            fpu' = o.fpu /\ Shows(i.op = "CTC", o.ret, o.r)
    BY DEF Cop1
<1>2. PICK x \in Inputs(i) :
         \E o \in fpuOp(i, x, fpu) :
            fpu' = o.fpu /\ Shows(i.op = "CTC", o.ret, o.r)
    BY <1>1
<1>3. PICK o \in fpuOp(i, x, fpu) :
         fpu' = o.fpu /\ Shows(i.op = "CTC", o.ret, o.r)
    BY <1>2
<1>4. running \in Proc /\ fpu \in FpuState /\ Owns[running] = NoCause(fpu)
    BY OwnIs DEF Cop1
<1>5. PICK w \in fpuOp(i, x, NoCause(fpu)) :
         w.ret = o.ret /\ w.r = o.r /\ NoCause(w.fpu) = NoCause(o.fpu)
    BY <1>4, CausesDoNotMatter
<1>6. Owns' = [Owns EXCEPT ![running] = NoCause(w.fpu)]
    BY <1>3, <1>5, OwnsChange
<1>7. shown' = [proc |-> running, set |-> i.op = "CTC", ret |-> w.ret, r |-> w.r]
    BY <1>3, <1>5 DEF Shows
<1>8. w \in O!fpuOp(i, x, Owns[running]) /\ x \in O!Inputs(i)
    BY <1>4, SameInstructions, SameOperators
<1>9. Owns' = [Owns EXCEPT ![running] = O!NoCause(w.fpu)]
    BY <1>6, SameOperators
<1>10. shown'.proc = running /\ shown'.set = (i.op = "CTC")
    BY <1>7
<1>11. O!Operate(running, i)
    BY <1>7, <1>8, <1>9, <1>10 DEF O!Operate, Owns
<1>. QED  BY <1>4, <1>11 DEF O!Next

LEMMA LoadOwn ==
    ASSUME ShareInv, LoadC1
    PROVE  O!Next
<1>1. PICK n \in FReg, fmt \in {"S", "D"} : fpu' \in Given(fpu, fmt, n, Number)
    BY DEF LoadC1
<1>2. running \in Proc /\ fpu \in FpuState /\ Owns[running] = NoCause(fpu)
    BY OwnIs DEF LoadC1
<1>3. NoCause(fpu') \in O!Given(Owns[running], fmt, n, O!Number)
    BY <1>1, <1>2, GivenToo, SameOperators
<1>4. Owns' = [Owns EXCEPT ![running] = NoCause(fpu')]
    BY OwnsChange
<1>5. shown' = [proc |-> running, set |-> FALSE, ret |-> "done", r |-> O!Nothing]
    BY SameOperators DEF LoadC1, Shows
<1>6. O!LoadOne(running, fmt, n)
    BY <1>3, <1>4, <1>5 DEF O!LoadOne, Owns
<1>. QED  BY <1>1, <1>2, <1>6, SameOperators DEF O!Next

LEMMA StoreOwn ==
    ASSUME ShareInv, StoreC1
    PROVE  O!Next
<1>1. PICK n \in FReg, fmt \in {"S", "D"} :
         Shows(FALSE, "done", OfWords(Held(fpu, fmt, n)))
    BY DEF StoreC1
<1>2. running \in Proc /\ fpu \in FpuState /\ Owns[running] = NoCause(fpu)
    BY OwnIs DEF StoreC1
<1>3. Held(Owns[running], fmt, n) = Held(fpu, fmt, n)
    BY <1>2, NoCauseIs DEF Held
<1>4. shown' = [proc |-> running, set |-> FALSE, ret |-> "done",
                r |-> O!OfWords(O!Held(Owns[running], fmt, n))]
    BY <1>1, <1>3, SameOperators DEF Shows
<1>5. Owns' = Owns
    BY OwnsStay
<1>6. O!StoreOne(running, fmt, n)
    BY <1>4, <1>5 DEF O!StoreOne, Owns
<1>. QED  BY <1>1, <1>2, <1>6, SameOperators DEF O!Next

LEMMA NextOwn ==
    ASSUME ShareInv, [Next]_vars
    PROVE  O!Next \/ UNCHANGED <<[p \in Proc |-> Own(p)], shown>>
<1>1. CASE Cop1 \/ LoadC1 \/ StoreC1
    BY <1>1, Cop1Own, LoadOwn, StoreOwn
<1>2. CASE FaultC1 \/ Switch \/ Acquire
    <2>1. Owns' = Owns
        BY <1>2, OwnsStay
    <2>2. shown' = O!Quiet
        BY <1>2, SameOperators DEF FaultC1, Switch, Acquire
    <2>3. O!Fault
        BY <2>1, <2>2 DEF O!Fault, Owns
    <2>. QED  BY <2>3 DEF O!Next
<1>3. CASE UNCHANGED vars
    <2>1. Owns' = Owns
        BY <1>3, OwnsStay
    <2>. QED  BY <1>3, <2>1 DEF vars, Owns
<1>. QED  BY <1>1, <1>2, <1>3 DEF Next

(* Each process has, for all it can tell, a unit of its own.               *)
THEOREM ProcessesDoNotNotice == Spec => ImplementsOwnFpu
<1>1. Init => O!Init
    BY InitOwn
<1>2. ShareInv /\ [Next]_vars => [O!Next]_<<[p \in Proc |-> Own(p)], shown>>
    BY NextOwn
<1>. QED  BY <1>1, <1>2, ShareInvHolds, PTL DEF Spec, ImplementsOwnFpu, O!Spec
====
