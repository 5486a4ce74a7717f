------------------------- MODULE Exceptions_proofs -------------------------
(***************************************************************************)
(* Exceptions nest to any depth and always return to what they             *)
(* interrupted, for every program and every place of the vectors.          *)
(***************************************************************************)
EXTENDS Exceptions, SequenceTheorems, TLAPS

Frame == [back : Int, modes : {<<>>} \cup (Mode \X Mode), leaving : BOOLEAN]
Interrupted == [at : Int, mode : Mode, next : Int]

(* The shapes of the variables. *)
Shape ==
    /\ pc \in Int /\ npc \in Int /\ epc \in Int
    /\ inDelaySlot \in BOOLEAN /\ llbit \in BOOLEAN /\ intact \in BOOLEAN
    /\ status \in [cur : Mode, prev : Mode, old : Mode]
    /\ cause \in [bd : BOOLEAN, code : {"irq", "fault", "trap"}]
    /\ frames \in Seq(Frame) /\ nest \in Seq(Interrupted)
    /\ Len(frames) = Len(nest)

Levels == 1 .. Len(nest)

(* What is said of the level i. *)
Level(i) == FrameInv(i) /\ NestInv(i)

LEMMA KernelOffIsMode == KernelOff \in Mode
  BY DEF KernelOff, Mode

(* What is said of a level rests on the levels up to it. *)
LEMMA Below ==
    ASSUME NEW m \in Nat, m <= Len(nest), \A i \in Levels : Level(i),
           \A i \in 1 .. m : frames'[i] = frames[i] /\ nest'[i] = nest[i]
    PROVE  \A i \in 1 .. m : Level(i)'
  <1> SUFFICES ASSUME NEW i \in 1 .. m PROVE Level(i)'
    OBVIOUS
  <1>1. Level(i) /\ frames'[i] = frames[i] /\ nest'[i] = nest[i]
    BY DEF Levels
  <1>2. i > 1 => frames'[i - 1] = frames[i - 1] /\ nest'[i - 1] = nest[i - 1]
    OBVIOUS
  <1>3. i > 2 => frames'[i - 2] = frames[i - 2]
    OBVIOUS
  <1> QED
    BY <1>1, <1>2, <1>3 DEF Level, FrameInv, NestInv, Unsaved

(* An element more. *)
LEMMA Pushed ==
    ASSUME NEW S, NEW s \in Seq(S), NEW e \in S, NEW t, t = Append(s, e)
    PROVE  /\ t \in Seq(S)
           /\ Len(t) = Len(s) + 1
           /\ \A i \in 1 .. Len(s) : t[i] = s[i]
           /\ t[Len(s) + 1] = e
  BY AppendProperties

(* An element less. *)
LEMMA Popped ==
    ASSUME NEW S, NEW s \in Seq(S), s # <<>>, NEW t, t = Pop(s)
    PROVE  /\ t \in Seq(S)
           /\ Len(t) = Len(s) - 1
           /\ \A i \in 1 .. Len(s) - 1 : t[i] = s[i]
           /\ Len(s) >= 1
  <1>1. Len(s) \in Nat /\ Len(s) >= 1
    BY EmptySeq, LenProperties
  <1> DEFINE n == Len(s) - 1
  <1>2. 1 \in 1 .. Len(s) + 1 /\ n \in 1 - 1 .. Len(s)
    BY <1>1
  <1>3. /\ SubSeq(s, 1, n) \in Seq(S)
        /\ Len(SubSeq(s, 1, n)) = IF 1 <= n THEN n - 1 + 1 ELSE 0
        /\ \A i \in 1 .. n - 1 + 1 : SubSeq(s, 1, n)[i] = s[1 + i - 1]
    <2> HIDE DEF n
    <2> QED
      BY <1>2, SubSeqProperties
  <1>4. t = SubSeq(s, 1, n)
    BY DEF Pop
  <1>5. n \in Nat /\ Len(t) = n
    <2>1. n \in Nat
      BY <1>1
    <2>2. Len(t) = IF 1 <= n THEN n - 1 + 1 ELSE 0
      BY <1>3, <1>4
    <2> HIDE DEF n
    <2> QED
      BY <2>1, <2>2
  <1>6. \A i \in 1 .. n : t[i] = s[i]
    <2> SUFFICES ASSUME NEW i \in 1 .. n PROVE t[i] = s[i]
      OBVIOUS
    <2>1. i \in 1 .. n - 1 + 1 /\ 1 + i - 1 = i
      BY <1>5
    <2>2. t[i] = s[1 + i - 1]
      BY <2>1, <1>3, <1>4
    <2> QED
      BY <2>1, <2>2
  <1> QED
    BY <1>1, <1>3, <1>4, <1>5, <1>6

(* The last element changed. *)
LEMMA Replaced ==
    ASSUME NEW S, NEW s \in Seq(S), s # <<>>, NEW e \in S,
           NEW t, t = [s EXCEPT ![Len(s)] = e]
    PROVE  /\ t \in Seq(S)
           /\ Len(t) = Len(s)
           /\ \A i \in 1 .. Len(s) - 1 : t[i] = s[i]
           /\ t[Len(s)] = e
           /\ Len(s) >= 1
  <1>1. Len(s) \in Nat /\ Len(s) >= 1
    BY EmptySeq, LenProperties
  <1> QED
    BY <1>1, ExceptSeq
-----------------------------------------------------------------------------
(* A branch does not follow a jump directly: it would be in its slot. *)
LEMMA BranchNotAfterJump ==
    ASSUME NEW a \in User, Kind[a] \in Branches
    PROVE  ~ AfterJump(a)
  BY CodeAssumption DEF CodeAssumption, AfterJump, Branches, User

(* Where the program is, and what follows it. *)
LEMMA UserPlaces ==
    ASSUME Shape, FlowInv, InUser
    PROVE  /\ Unit \in User /\ ~ AfterJump(Unit)
           /\ inDelaySlot => /\ npc \in User /\ ~ AfterJump(npc)
                             /\ Kind[pc] \notin Branches
           /\ ~ inDelaySlot /\ Kind[pc] # "jump" =>
                npc \in User /\ ~ AfterJump(npc)
           /\ ~ inDelaySlot /\ Kind[pc] = "likely" =>
                npc + 1 \in User /\ ~ AfterJump(npc + 1)
           /\ ~ inDelaySlot /\ Kind[pc] = "jump" => npc \in User
  <1>1. CASE inDelaySlot
    <2>1. pc - 1 \in User /\ Kind[pc - 1] \in Branches /\ npc = Target[pc - 1]
      BY <1>1 DEF FlowInv
    <2>2. npc \in User /\ ~ AfterJump(npc)
      BY <2>1, CodeAssumption DEF CodeAssumption
    <2>3. Kind[pc - 1 + 1] \notin Branches
      BY <2>1, CodeAssumption DEF CodeAssumption
    <2>4. pc - 1 + 1 = pc
      BY DEF Shape
    <2> QED
      BY <1>1, <2>1, <2>2, <2>3, <2>4, BranchNotAfterJump DEF Unit
  <1>2. CASE ~ inDelaySlot
    <2>1. pc \in User /\ npc = pc + 1 /\ ~ AfterJump(pc)
      BY <1>2 DEF FlowInv
    <2>2. pc + 1 \in User
      BY <2>1, CodeAssumption DEF CodeAssumption
    <2>3. Kind[pc] # "jump" => ~ AfterJump(pc + 1)
      BY <2>1, CodeAssumption DEF CodeAssumption, AfterJump, User
    <2>4. Kind[pc] = "likely" => pc + 2 \in User /\ ~ AfterJump(pc + 2)
      BY <2>1, CodeAssumption DEF CodeAssumption
    <2>5. npc + 1 = pc + 2
      BY <2>1 DEF User
    <2> QED
      BY <1>2, <2>1, <2>2, <2>3, <2>4, <2>5 DEF Unit
  <1> QED
    BY <1>1, <1>2

(* What an exception may interrupt: the program, or a handler that can     *)
(* afford it.  Only instructions of the program trap.                      *)
MayTake(code) ==
    /\ code \in {"irq", "fault", "trap"}
    /\ code = "trap" => InUser /\ Kind[pc] \in {"trap", "rfe"}
    /\ InUser \/ status.cur.ie \/ Len(nest) < MaxNest
    /\ InUser \/ LET n == Len(nest) IN
         /\ frames[n].back # None /\ ~ frames[n].leaving
         /\ status.cur.ie => ~ Unsaved(n)
         /\ (n > 1 /\ Unsaved(n)) => ~ Unsaved(n - 1)

(* An exception keeps the invariant. *)
LEMMA TakeKeeps ==
    ASSUME Shape, HandlersInv, NEW code, NEW v \in Vector, MayTake(code),
           Take(code, v)
    PROVE  Shape' /\ HandlersInv'
  <1>0. PICK n \in Nat : n = Len(nest)
    BY LenProperties DEF Shape
  <1> DEFINE next == IF code = "trap" THEN npc ELSE Unit
             new == [at |-> Unit, mode |-> status.cur, next |-> next]
  <1>1. Len(nest) = n /\ Len(frames) = n
    BY <1>0 DEF Shape
  <1>2. Unit \in Int /\ next \in Int /\ Epc = Unit
    BY DEF Shape, Unit, Epc
  <1>3. Raw \in Frame /\ new \in Interrupted
    <2>1. Raw \in Frame
      BY DEF Raw, Frame, None
    <2>2. status.cur \in Mode
      BY DEF Shape
    <2> QED
      BY <2>1, <2>2, <1>2 DEF Interrupted
  <1>4. /\ frames' \in Seq(Frame) /\ Len(frames') = n + 1
        /\ \A i \in 1 .. n : frames'[i] = frames[i]
        /\ frames'[n + 1] = Raw
    <2>1. frames' = Append(frames, Raw)
      BY DEF Take
    <2> QED
      BY <1>1, <1>3, <2>1, Pushed DEF Shape
  <1>5. /\ nest' \in Seq(Interrupted) /\ Len(nest') = n + 1
        /\ \A i \in 1 .. n : nest'[i] = nest[i]
        /\ nest'[n + 1] = new
    <2>1. nest' = Append(nest, new)
      BY DEF Take
    <2> QED
      BY <1>1, <1>3, <2>1, Pushed DEF Shape
  <1>6. /\ status' = [cur |-> KernelOff, prev |-> status.cur, old |-> status.prev]
        /\ epc' = Unit /\ cause' = [bd |-> inDelaySlot, code |-> code]
        /\ inDelaySlot' = FALSE /\ pc' = v /\ npc' = v + 1
        /\ llbit' = llbit /\ intact' = FALSE
    BY <1>2 DEF Take, Shifted, BD
  <1>7. Shape'
    <2>1. v \in Int
      BY KernelAssumption DEF KernelAssumption, Vector
    <2>2. status' \in [cur : Mode, prev : Mode, old : Mode]
      BY <1>6, KernelOffIsMode DEF Shape
    <2>3. cause' \in [bd : BOOLEAN, code : {"irq", "fault", "trap"}]
      BY <1>6 DEF Shape, MayTake
    <2>4. pc' \in Int /\ npc' \in Int /\ epc' \in Int
      BY <1>2, <1>6, <2>1
    <2>5. inDelaySlot' \in BOOLEAN /\ llbit' \in BOOLEAN /\ intact' \in BOOLEAN
      BY <1>6 DEF Shape
    <2> QED
      BY <1>4, <1>5, <2>2, <2>3, <2>4, <2>5 DEF Shape
  <1>8. \A i \in 1 .. n : Level(i)'
    BY <1>1, <1>4, <1>5, Below DEF HandlersInv, Level, Levels
  <1>9. ~ InUser' /\ nest' # <<>>
    BY <1>1, <1>5, <1>6, EmptySeq DEF InUser, KernelOff
  <1>10. FrameInv(n + 1)' /\ Unsaved(n + 1)'
    BY <1>4 DEF FrameInv, Unsaved, Raw
  <1>11. n = 0 <=> nest = <<>>
    BY <1>1, EmptySeq DEF Shape
  <1>12. n > 0 => /\ frames'[n + 1 - 1] = frames[n] /\ n + 1 - 1 = n
                 /\ nest'[n] = nest[n]
    BY <1>1, <1>4, <1>5
  <1>13. n > 1 => frames'[n + 1 - 2] = frames[n - 1] /\ n + 1 - 2 = n - 1
    BY <1>1, <1>4
  <1>14. n > 0 => TopInv(n) /\ ~ InUser
    BY <1>1, <1>11 DEF HandlersInv
  <1>15. NestInv(n + 1)'
    <2>1. nest'[n + 1].mode.ku <=> n + 1 = 1
      BY <1>1, <1>5, <1>11 DEF HandlersInv, InUser
    <2>2. n + 1 > 1 => frames'[n + 1 - 1].back # None
                       /\ ~ frames'[n + 1 - 1].leaving
      BY <1>1, <1>5, <1>12, <1>14 DEF MayTake, Unsaved
    <2>3. (n + 1 > 1 /\ nest'[n + 1].mode.ie) => ~ Unsaved(n + 1 - 1)'
      BY <1>1, <1>5, <1>12, <1>14 DEF MayTake, Unsaved
    <2>4. (n + 1 > 2 /\ Unsaved(n + 1 - 1)') => ~ Unsaved(n + 1 - 2)'
      BY <1>1, <1>12, <1>13, <1>14 DEF MayTake, Unsaved
    <2> QED
      <3>1. NestInv(n + 1)' <=>
             /\ nest'[n + 1].mode.ku <=> n + 1 = 1
             /\ n + 1 > 1 => frames'[n + 1 - 1].back # None
                             /\ ~ frames'[n + 1 - 1].leaving
             /\ (n + 1 > 1 /\ nest'[n + 1].mode.ie) => ~ Unsaved(n + 1 - 1)'
             /\ (n + 1 > 2 /\ Unsaved(n + 1 - 1)') => ~ Unsaved(n + 1 - 2)'
        BY DEF NestInv
      <3> QED
        BY <2>1, <2>2, <2>3, <2>4, <3>1, Zenon
  <1>16. Beyond' = next
    <2>1. CASE code # "trap"
      BY <1>6, <2>1 DEF Beyond
    <2>2. CASE code = "trap"
      <3>1. InUser /\ FlowInv
        BY <2>2 DEF MayTake, HandlersInv
      <3>2. CASE inDelaySlot
        BY <1>6, <2>2, <3>1, <3>2 DEF Beyond, FlowInv, Unit
      <3>3. CASE ~ inDelaySlot
        BY <1>6, <2>2, <3>1, <3>3 DEF Beyond, FlowInv, Unit, Shape
      <3> QED
        BY <3>2, <3>3
    <2> QED
      BY <2>1, <2>2
  <1>17. TopInv(n + 1)'
    <2>1. status'.prev = nest'[n + 1].mode
      BY <1>5, <1>6
    <2>2. (n + 1 > 1 /\ Unsaved(n + 1 - 1)') => status'.old = nest'[n + 1 - 1].mode
      BY <1>1, <1>6, <1>12, <1>14 DEF TopInv, Unsaved
    <2>3. Beyond' = nest'[n + 1].next
      BY <1>5, <1>16
    <2>4. ~ status'.cur.ie
      BY <1>6 DEF KernelOff
    <2>5. ~ frames'[n + 1].leaving
      BY <1>4 DEF Raw
    <2> QED
      BY <2>1, <2>2, <2>3, <2>4, <2>5 DEF TopInv
  <1>18. FlowInv'
    <2>1. nest'[1].next \in User /\ ~ AfterJump(nest'[1].next)
      <3>1. CASE n = 0
        <4>1. nest'[1].next = next /\ InUser /\ FlowInv
          BY <1>5, <1>11, <3>1 DEF HandlersInv
        <4> QED
          BY <4>1, UserPlaces DEF MayTake
      <3>2. CASE n > 0
        BY <1>1, <1>5, <1>11, <3>2 DEF HandlersInv, FlowInv
      <3> QED
        BY <1>1, <3>1, <3>2
    <2> QED
      BY <1>9, <2>1 DEF FlowInv, AfterJump
  <1>19. \A i \in 1 .. n + 1 : Level(i)'
    BY <1>1, <1>8, <1>10, <1>15 DEF Level
  <1> QED
    BY <1>4, <1>5, <1>7, <1>9, <1>17, <1>18, <1>19 DEF HandlersInv, Level
-----------------------------------------------------------------------------
(* In the kernel there is a handler on top. *)
LEMMA SomeHandler ==
    ASSUME Shape, HandlersInv, ~ InUser
    PROVE  /\ nest # <<>> /\ frames # <<>>
           /\ Len(nest) \in Nat /\ Len(nest) >= 1 /\ Len(frames) = Len(nest)
           /\ TopInv(Len(nest)) /\ Level(Len(nest))
           /\ Top = frames[Len(nest)] /\ Top \in Frame
           /\ nest[Len(nest)] \in Interrupted
  <1>1. nest # <<>> /\ nest \in Seq(Interrupted) /\ Len(frames) = Len(nest)
    BY DEF Shape, HandlersInv
  <1>2. Len(nest) \in Nat /\ Len(nest) >= 1
    BY <1>1, EmptySeq
  <1>3. frames # <<>>
    BY <1>1, <1>2, EmptySeq
  <1>4. frames[Len(nest)] \in Frame /\ nest[Len(nest)] \in Interrupted
    BY <1>1, <1>2, ElementOfSeq DEF Shape
  <1> QED
    BY <1>1, <1>2, <1>3, <1>4 DEF HandlersInv, Level, Top

(* RFE in the slot of the jump back keeps the invariant, and what runs     *)
(* then is what the exception interrupted.                                 *)
LEMMA RfeKeeps ==
    ASSUME Shape, HandlersInv, ~ InUser, Top.leaving, DoRfe
    PROVE  /\ Shape' /\ HandlersInv'
           /\ pc' = nest[Len(nest)].next /\ npc' = pc' + 1
           /\ status'.cur = nest[Len(nest)].mode
           /\ Len(nest') = Len(nest) - 1
           /\ \A i \in 1 .. Len(nest) - 1 : nest'[i] = nest[i]
  <1>1. PICK n \in Nat : n = Len(nest)
    BY SomeHandler
  <1>2. /\ n >= 1 /\ Len(frames) = n /\ nest # <<>> /\ frames # <<>>
        /\ TopInv(n) /\ Level(n) /\ Top = frames[n] /\ frames[n].leaving
        /\ nest[n] \in Interrupted
    BY <1>1, SomeHandler
  <1>3. /\ frames' \in Seq(Frame) /\ Len(frames') = n - 1
        /\ \A i \in 1 .. n - 1 : frames'[i] = frames[i]
    BY <1>2, Popped DEF DoRfe, Shape
  <1>4. /\ nest' \in Seq(Interrupted) /\ Len(nest') = n - 1
        /\ \A i \in 1 .. n - 1 : nest'[i] = nest[i]
    BY <1>1, <1>2, Popped DEF DoRfe, Shape
  <1>5. /\ pc' = npc /\ npc' = npc + 1 /\ ~ inDelaySlot' /\ ~ llbit'
        /\ inDelaySlot' \in BOOLEAN /\ llbit' \in BOOLEAN
        /\ UNCHANGED <<epc, cause, irq, intact>>
    BY DEF DoRfe, NoBranchTaken
  <1>6. status' = [cur |-> status.prev, prev |-> status.old, old |-> status.old]
    BY DEF DoRfe, Shape
  <1>7. status.prev = nest[n].mode
    BY <1>2 DEF TopInv
  <1>8. npc = nest[n].next
    BY <1>2 DEF TopInv, Level, FrameInv
  <1>9. Shape'
    BY <1>3, <1>4, <1>5, <1>6 DEF Shape
  <1>10. \A i \in 1 .. n - 1 : Level(i)'
    BY <1>1, <1>2, <1>3, <1>4, Below, SMTT(40) DEF HandlersInv, Level, Levels
  <1>11. InUser' <=> n = 1
    BY <1>2, <1>6, <1>7 DEF InUser, Level, NestInv
  <1>12. n = 1 <=> nest' = <<>>
    BY <1>2, <1>4, EmptySeq
  <1>13. n > 1 => TopInv(n - 1)'
    <2> SUFFICES ASSUME n > 1 PROVE TopInv(n - 1)'
      OBVIOUS
    <2>1. frames'[n - 1] = frames[n - 1] /\ nest'[n - 1] = nest[n - 1]
      BY <1>3, <1>4
    <2>2. frames[n - 1].back # None /\ ~ frames[n - 1].leaving
      BY <1>2 DEF Level, NestInv
    <2>3. Unsaved(n - 1)' => status'.prev = nest'[n - 1].mode
      BY <1>2, <1>6, <2>1 DEF TopInv, Unsaved
    <2>4. n - 1 > 1 => frames'[n - 1 - 1] = frames[n - 2]
      BY <1>3
    <2>5. ~ (n - 1 > 1 /\ Unsaved(n - 1)' /\ Unsaved(n - 1 - 1)')
      BY <1>2, <2>1, <2>4 DEF Level, NestInv, Unsaved
    <2>6. status'.cur.ie => ~ Unsaved(n - 1)'
      BY <1>2, <1>6, <1>7, <2>1 DEF Level, NestInv, Unsaved
    <2> QED
      BY <2>1, <2>2, <2>3, <2>5, <2>6 DEF TopInv
  <1>14. FlowInv'
    <2>1. nest[1].next \in User /\ ~ AfterJump(nest[1].next)
      BY <1>2 DEF HandlersInv, FlowInv
    <2>2. n = 1 => pc' \in User /\ ~ AfterJump(pc')
      BY <1>5, <1>8, <2>1
    <2>3. n > 1 => nest'[1] = nest[1]
      BY <1>4
    <2>4. InUser' => pc' \in User /\ ~ AfterJump(pc)' /\ npc' = pc' + 1
      BY <1>5, <1>11, <2>2 DEF AfterJump
    <2>5. nest' # <<>> => nest'[1].next \in User /\ ~ AfterJump(nest[1].next)'
      BY <1>2, <1>12, <2>1, <2>3 DEF AfterJump
    <2> QED
      BY <1>5, <2>4, <2>5 DEF FlowInv
  <1>15. HandlersInv'
    BY <1>3, <1>4, <1>10, <1>11, <1>12, <1>13, <1>14 DEF HandlersInv, Level
  <1> QED
    BY <1>1, <1>4, <1>5, <1>6, <1>7, <1>8, <1>9, <1>15

(* What f has to be when it becomes the top frame of n levels. *)
Fits(f, n) ==
    /\ f \in Frame
    /\ f.modes # <<>> => f.modes[1] = nest[n].mode
    /\ (n > 1 /\ f.modes # <<>> /\ Unsaved(n - 1)) =>
          f.modes[2] = nest[n - 1].mode
    /\ f.back # None => f.back = nest[n].next
    /\ f.modes = <<>> => status'.prev = nest[n].mode
    /\ (n > 1 /\ f.modes = <<>> /\ Unsaved(n - 1)) =>
          status'.old = nest[n - 1].mode
    /\ f.back = None => Beyond = nest[n].next
    /\ status'.cur.ie => f.modes # <<>> /\ f.back # None
    /\ f.leaving => /\ inDelaySlot' /\ npc' = f.back
                    /\ f.back # None /\ f.modes = <<>>

(* A handler's step that keeps it in the kernel keeps the invariant. *)
LEMMA FrameKeeps ==
    ASSUME Shape, HandlersInv, ~ InUser, NEW f, KeepsFrame(f),
           Fits(f, Len(nest)),
           pc' \in Int, npc' \in Int, inDelaySlot' \in BOOLEAN,
           status' \in [cur : Mode, prev : Mode, old : Mode], ~ status'.cur.ku
    PROVE  Shape' /\ HandlersInv'
  <1>1. PICK n \in Nat : n = Len(nest)
    BY SomeHandler
  <1>2. /\ n >= 1 /\ Len(frames) = n /\ nest # <<>> /\ frames # <<>>
        /\ Level(n) /\ Fits(f, n)
    BY <1>1, SomeHandler
  <1>3. UNCHANGED <<llbit, epc, cause, irq, nest, intact>>
    BY DEF KeepsFrame
  <1>4. f \in Frame
    BY <1>2 DEF Fits
  <1>5. /\ frames' \in Seq(Frame) /\ Len(frames') = n
        /\ \A i \in 1 .. n - 1 : frames'[i] = frames[i]
        /\ frames'[n] = f
    BY <1>2, <1>4, Replaced DEF KeepsFrame, Shape
  <1>6. Shape'
    BY <1>1, <1>3, <1>5 DEF Shape
  <1>7. \A i \in 1 .. n - 1 : Level(i)'
    BY <1>1, <1>2, <1>3, <1>5, Below, SMTT(40) DEF HandlersInv, Level, Levels
  <1>8. n > 1 => frames'[n - 1] = frames[n - 1]
    BY <1>5
  <1>9. n > 2 => frames'[n - 2] = frames[n - 2]
    BY <1>5
  <1>10. FrameInv(n)'
    BY <1>2, <1>3, <1>5, <1>8 DEF FrameInv, Fits, Unsaved
  <1>11. NestInv(n)'
    BY <1>2, <1>3, <1>5, <1>8, <1>9 DEF Level, NestInv, Unsaved
  <1>12. Beyond' = Beyond
    BY <1>3 DEF Beyond
  <1>13. TopInv(n)'
    BY <1>2, <1>3, <1>5, <1>8, <1>12 DEF TopInv, Fits, Unsaved
  <1>14. ~ InUser' /\ nest' # <<>> /\ Len(nest') = n
    BY <1>1, <1>2, <1>3 DEF InUser
  <1>15. FlowInv'
    BY <1>2, <1>3, <1>14 DEF HandlersInv, FlowInv, AfterJump
  <1>16. \A i \in 1 .. n : Level(i)'
    BY <1>7, <1>10, <1>11 DEF Level
  <1> QED
    BY <1>5, <1>6, <1>13, <1>14, <1>15, <1>16 DEF HandlersInv, Level

(* A step of the kernel that leaves frames and Status alone. *)
LEMMA OtherKeeps ==
    ASSUME Shape, HandlersInv, ~ InUser, ~ Top.leaving,
           pc' \in Int, npc' \in Int, inDelaySlot' \in BOOLEAN,
           llbit' \in BOOLEAN, intact' \in BOOLEAN,
           UNCHANGED <<epc, status, cause, frames, nest>>
    PROVE  Shape' /\ HandlersInv'
  <1>1. PICK n \in Nat : n = Len(nest)
    BY SomeHandler
  <1>2. n >= 1 /\ nest # <<>> /\ TopInv(n) /\ ~ frames[n].leaving
    BY <1>1, SomeHandler
  <1>3. Shape' /\ ~ InUser' /\ nest' # <<>> /\ Len(nest') = n
    BY <1>1, <1>2 DEF Shape, InUser
  <1>4. Beyond' = Beyond
    BY DEF Beyond
  <1>5. TopInv(n)'
    BY <1>2, <1>4 DEF TopInv, Unsaved
  <1>6. \A i \in 1 .. n : Level(i)'
    BY <1>1 DEF HandlersInv, Level, FrameInv, NestInv, Unsaved
  <1>7. FlowInv'
    BY <1>2, <1>3 DEF HandlersInv, FlowInv, AfterJump
  <1> QED
    BY <1>1, <1>3, <1>5, <1>6, <1>7 DEF HandlersInv, Level
-----------------------------------------------------------------------------
(* The program's instructions that finish. *)
Finishes == \/ Straight \/ Branching \/ Skipping
            \/ Kind[pc] = "ll" /\ Ll
            \/ Kind[pc] = "sc" /\ Sc

(* They leave everything that belongs to exceptions alone. *)
LEMMA FinishesFrame ==
    ASSUME Shape, InUser, Finishes
    PROVE  /\ UNCHANGED <<epc, status, cause, frames, nest>>
           /\ llbit' \in BOOLEAN /\ intact' \in BOOLEAN
           /\ \/ NoBranchTaken /\ Kind[pc] \notin {"likely", "jump"}
              \/ BranchTo(Target[pc]) /\ Kind[pc] \in Branches
              \/ SkipNextInstr /\ Kind[pc] = "likely"
  <1>1. CASE Straight
    BY <1>1 DEF Straight, Goes, Shape
  <1>2. CASE Branching
    BY <1>2 DEF Branching, Goes, Shape
  <1>3. CASE Skipping
    BY <1>3 DEF Skipping, Goes, Shape
  <1>4. CASE Kind[pc] = "ll" /\ Ll
    BY <1>4 DEF Ll, Shape
  <1>5. CASE Kind[pc] = "sc" /\ Sc
    BY <1>5 DEF Sc, Shape
  <1> QED
    BY <1>1, <1>2, <1>3, <1>4, <1>5 DEF Finishes

LEMMA FinishesKeeps ==
    ASSUME Shape, HandlersInv, InUser, Finishes
    PROVE  Shape' /\ HandlersInv'
  <1>1. /\ UNCHANGED <<epc, status, cause, frames, nest>>
        /\ llbit' \in BOOLEAN /\ intact' \in BOOLEAN
    BY FinishesFrame
  <1>2. nest = <<>> /\ FlowInv /\ pc \in User
    BY DEF HandlersInv, FlowInv
  <1>3. /\ pc' \in Int /\ npc' \in Int /\ inDelaySlot' \in BOOLEAN
        /\ pc' \in User
        /\ ~ inDelaySlot' => npc' = pc' + 1 /\ ~ AfterJump(pc')
        /\ inDelaySlot' => /\ pc' - 1 \in User /\ Kind[pc' - 1] \in Branches
                          /\ npc' = Target[pc' - 1]
    <2>1. CASE NoBranchTaken /\ Kind[pc] \notin {"likely", "jump"}
      <3>1. npc \in User /\ ~ AfterJump(npc)
        BY <1>2, <2>1, UserPlaces
      <3>2. pc' = npc /\ npc' = npc + 1 /\ inDelaySlot' = FALSE
        BY <2>1 DEF NoBranchTaken
      <3>3. pc' \in Int /\ npc' \in Int
        BY <3>2 DEF Shape
      <3>4. pc' \in User /\ npc' = pc' + 1
        BY <3>1, <3>2
      <3>5. ~ AfterJump(pc')
        BY <3>1, <3>2 DEF AfterJump
      <3>6. inDelaySlot' \in BOOLEAN /\ ~ inDelaySlot'
        BY <3>2
      <3> QED
        BY <3>3, <3>4, <3>5, <3>6
    <2>2. CASE BranchTo(Target[pc]) /\ Kind[pc] \in Branches
      <3>1. ~ inDelaySlot
        BY <1>2, <2>2, UserPlaces
      <3>2. npc = pc + 1 /\ npc \in User
        BY <1>2, <3>1, UserPlaces DEF FlowInv
      <3>3. Target[pc] \in User
        BY <1>2, CodeAssumption DEF CodeAssumption
      <3>4. pc' = npc /\ npc' = Target[pc] /\ inDelaySlot' = TRUE
        BY <2>2 DEF BranchTo
      <3>5. pc' - 1 = pc
        BY <3>2, <3>4 DEF Shape
      <3> QED
        BY <1>2, <2>2, <3>2, <3>3, <3>4, <3>5 DEF User
    <2>3. CASE SkipNextInstr /\ Kind[pc] = "likely"
      <3>1. ~ inDelaySlot
        BY <1>2, <2>3, UserPlaces DEF Branches
      <3>2. npc + 1 \in User /\ ~ AfterJump(npc + 1)
        BY <1>2, <2>3, <3>1, UserPlaces
      <3>3. pc' = npc + 1 /\ npc' = pc' + 1 /\ inDelaySlot' = FALSE
        BY <2>3 DEF SkipNextInstr, Shape
      <3>4. pc' \in Int /\ npc' \in Int /\ pc' \in User
        BY <3>2, <3>3 DEF Shape
      <3>5. ~ AfterJump(pc')
        BY <3>2, <3>3 DEF AfterJump
      <3>6. inDelaySlot' \in BOOLEAN /\ ~ inDelaySlot'
        BY <3>3
      <3> QED
        BY <3>3, <3>4, <3>5, <3>6
    <2> QED
      BY <2>1, <2>2, <2>3, FinishesFrame
  <1>4. Shape'
    BY <1>1, <1>3 DEF Shape
  <1>5. FlowInv'
    BY <1>1, <1>2, <1>3 DEF FlowInv, AfterJump
  <1>6. InUser' /\ nest' = <<>> /\ Len(frames') = Len(nest') /\ Len(nest') = 0
    BY <1>1, <1>2, EmptySeq DEF InUser, Shape
  <1> QED
    BY <1>4, <1>5, <1>6 DEF HandlersInv
-----------------------------------------------------------------------------
(* The kernel's own steps that move on. *)
LEMMA StepsMove ==
    ASSUME Shape, Steps
    PROVE  /\ pc' \in Int /\ npc' \in Int /\ inDelaySlot' \in BOOLEAN
           /\ ~ Top.leaving
  <1>1. pc' \in Int /\ npc' \in Int
    BY DEF Shape, Steps, NoBranchTaken
  <1>2. inDelaySlot' \in BOOLEAN
    BY DEF Steps, NoBranchTaken
  <1> QED
    BY <1>1, <1>2 DEF Steps

(* A handler that saves, restores or returns keeps the invariant. *)
LEMMA HandlerKeeps ==
    ASSUME Shape, HandlersInv, ~ InUser,
           SaveEpc \/ SaveStatus \/ EnableIrqs \/ RestoreStatus \/ Return
    PROVE  Shape' /\ HandlersInv'
  <1>1. PICK n \in Nat : n = Len(nest)
    BY SomeHandler
  <1>2. /\ n >= 1 /\ Top \in Frame /\ Top = frames[n]
        /\ TopInv(n) /\ FrameInv(n) /\ nest[n] \in Interrupted
    BY <1>1, SomeHandler DEF Level
  <1>3. /\ status \in [cur : Mode, prev : Mode, old : Mode]
        /\ ~ status.cur.ku
    BY DEF Shape, InUser
  <1>4. CASE SaveEpc
    <2> DEFINE f == [Top EXCEPT !.back = Beyond]
    <2>1. KeepsFrame(f) /\ Steps /\ Top.back = None /\ status' = status
      BY <1>4 DEF SaveEpc
    <2>2. Beyond = nest[n].next /\ Beyond \in Int /\ ~ status.cur.ie
      BY <1>2, <2>1 DEF TopInv, Interrupted
    <2>3. /\ f \in Frame /\ f.back = nest[n].next
          /\ f.modes = Top.modes /\ f.leaving = Top.leaving
      BY <1>2, <2>2 DEF Frame
    <2>4. ~ f.leaving
      BY <2>1, <2>3, StepsMove
    <2>5. Fits(f, n)
      BY <1>2, <2>1, <2>2, <2>3, <2>4 DEF Fits, TopInv, FrameInv, Unsaved
    <2> QED
      BY <1>1, <1>3, <2>1, <2>5, StepsMove, FrameKeeps
  <1>5. CASE SaveStatus
    <2> DEFINE f == [Top EXCEPT !.modes = <<status.prev, status.old>>]
    <2>1. /\ KeepsFrame(f) /\ Steps /\ Top.back # None /\ Top.modes = <<>>
          /\ status' = status
      BY <1>5 DEF SaveStatus
    <2>2. <<status.prev, status.old>> \in Mode \X Mode
      BY <1>3
    <2>3. /\ f \in Frame /\ f.back = Top.back /\ f.leaving = Top.leaving
          /\ f.modes = <<status.prev, status.old>>
      BY <1>2, <2>2 DEF Frame
    <2>4. ~ f.leaving
      BY <2>1, <2>3, StepsMove
    <2>5. f.modes[1] = status.prev /\ f.modes[2] = status.old /\ f.modes # <<>>
      BY <2>3
    <2>6. Fits(f, n)
      BY <1>2, <2>1, <2>3, <2>4, <2>5 DEF Fits, TopInv, FrameInv, Unsaved
    <2> QED
      BY <1>1, <1>3, <2>1, <2>6, StepsMove, FrameKeeps
  <1>6. CASE EnableIrqs
    <2>1. /\ KeepsFrame(Top) /\ Steps /\ Top.modes # <<>> /\ Top.back # None
          /\ status' = [status EXCEPT !.cur.ie = TRUE]
      BY <1>6 DEF EnableIrqs, Affordable, Mtc0Status
    <2>2. /\ status' \in [cur : Mode, prev : Mode, old : Mode]
          /\ status'.cur.ku = status.cur.ku
      BY <1>3, <2>1 DEF Mode
    <2>3. ~ Top.leaving
      BY <2>1, StepsMove
    <2>4. Fits(Top, n)
      BY <1>2, <2>1, <2>3 DEF Fits, TopInv, FrameInv, Unsaved
    <2> QED
      BY <1>1, <1>3, <2>1, <2>2, <2>4, StepsMove, FrameKeeps
  <1>7. CASE RestoreStatus
    <2> DEFINE f == [Top EXCEPT !.modes = <<>>]
    <2>1. /\ KeepsFrame(f) /\ Steps /\ Top.modes # <<>>
          /\ status' = [cur |-> KernelOff, prev |-> Top.modes[1],
                        old |-> Top.modes[2]]
      BY <1>7 DEF RestoreStatus, Mtc0Status
    <2>2. Top.modes \in Mode \X Mode
      BY <1>2, <2>1 DEF Frame
    <2>3. Top.modes[1] \in Mode /\ Top.modes[2] \in Mode
      BY <2>2
    <2>4. /\ status' \in [cur : Mode, prev : Mode, old : Mode]
          /\ status'.cur = KernelOff
      BY <2>1, <2>3, KernelOffIsMode
    <2>5. /\ f \in Frame /\ f.back = Top.back /\ f.leaving = Top.leaving
          /\ f.modes = <<>>
      BY <1>2 DEF Frame
    <2>6. ~ f.leaving
      BY <2>1, <2>5, StepsMove
    <2>7. Fits(f, n)
      BY <1>2, <2>1, <2>4, <2>5, <2>6
         DEF Fits, TopInv, FrameInv, Unsaved, KernelOff
    <2>8. ~ status'.cur.ku
      BY <2>4 DEF KernelOff
    <2> QED
      BY <1>1, <2>1, <2>4, <2>7, <2>8, StepsMove, FrameKeeps
  <1>8. CASE Return
    <2> DEFINE f == [Top EXCEPT !.leaving = TRUE]
    <2>1. /\ KeepsFrame(f) /\ BranchTo(Top.back) /\ status' = status
          /\ Top.back # None /\ Top.modes = <<>>
      BY <1>8 DEF Return
    <2>2. f \in Frame /\ f.back = Top.back /\ f.modes = Top.modes
      BY <1>2 DEF Frame
    <2>3. pc' = npc /\ npc' = Top.back /\ inDelaySlot' = TRUE
      BY <2>1 DEF BranchTo
    <2>4. pc' \in Int /\ npc' \in Int
      BY <1>2, <2>3 DEF Shape, Frame
    <2>5. Fits(f, n)
      BY <1>2, <2>1, <2>2, <2>3 DEF Fits, TopInv, FrameInv, Unsaved
    <2> QED
      BY <1>1, <1>3, <2>1, <2>3, <2>4, <2>5, FrameKeeps
  <1> QED
    BY <1>4, <1>5, <1>6, <1>7, <1>8
-----------------------------------------------------------------------------
(* The strengthening of HandlersInv that is inductive. *)
IInv == Shape /\ HandlersInv

(* Whatever a step does, it is one of these. *)
Taken == \E code \in {"irq", "fault", "trap"}, v \in Vector :
            MayTake(code) /\ Take(code, v)

Returned == ~ InUser /\ Top.leaving /\ DoRfe

Finished == InUser /\ Finishes

Handled == /\ ~ InUser
           /\ SaveEpc \/ SaveStatus \/ EnableIrqs \/ RestoreStatus \/ Return

Worked == /\ ~ InUser /\ ~ Top.leaving
          /\ \/ (Goes(NoBranchTaken) \/ Ll \/ Sc) /\ npc' \in Kernel
             \/ ~ inDelaySlot /\ \E v \in Vector : Goes(BranchTo(v))

LEMMA VectorIsAddress == Vector \subseteq Int /\ General \in Vector
  BY KernelAssumption DEF KernelAssumption, Vector

(* An exception that a cycle takes is one that may be taken. *)
LEMMA IrqIsTaken ==
    ASSUME IInv, Interruptible, Take("irq", General)
    PROVE  Taken
  <1>1. ~ inDelaySlot /\ status.cur.ie
    BY DEF Interruptible
  <1>2. MayTake("irq")
    <2>1. CASE InUser
      BY <2>1 DEF MayTake
    <2>2. CASE ~ InUser
      <3>1. TopInv(Len(nest))
        BY <2>2, SomeHandler DEF IInv
      <3> QED
        BY <1>1, <3>1 DEF TopInv, MayTake
    <2> QED
      BY <2>1, <2>2
  <1> QED
    BY <1>2, VectorIsAddress DEF Taken

LEMMA FaultIsTaken ==
    ASSUME IInv, Fault, InUser \/ Affordable
    PROVE  Taken
  <1>1. MayTake("fault")
    <2>1. CASE InUser
      BY <2>1 DEF MayTake
    <2>2. CASE ~ InUser
      <3>1. PICK n \in Nat : n = Len(nest)
        BY <2>2, SomeHandler DEF IInv
      <3>2. /\ TopInv(n) /\ Top = frames[n] /\ Len(frames) = n
            /\ frames \in Seq(Frame)
        BY <2>2, <3>1, SomeHandler DEF IInv, Shape
      <3>3. /\ frames[n].back # None /\ ~ frames[n].leaving /\ n < MaxNest
            /\ frames[n].modes # <<>> \/
                 \A i \in DOMAIN frames : i = n - 1 => frames[i].modes # <<>>
        BY <2>2, <3>1, <3>2 DEF Affordable
      <3>4. n > 1 => n - 1 \in DOMAIN frames
        BY <3>2, LenProperties
      <3>5. (n > 1 /\ Unsaved(n)) => ~ Unsaved(n - 1)
        BY <3>3, <3>4 DEF Unsaved
      <3>6. status.cur.ie => ~ Unsaved(n)
        BY <3>2 DEF TopInv
      <3> QED
        BY <3>1, <3>3, <3>5, <3>6 DEF MayTake
    <2> QED
      BY <2>1, <2>2
  <1> QED
    BY <1>1 DEF Fault, Taken

LEMMA UserTrapIsTaken ==
    ASSUME IInv, InUser, Trapping \/ (Kind[pc] = "rfe" /\ Rfe)
    PROVE  Taken
  <1>1. Take("trap", General) /\ Kind[pc] \in {"trap", "rfe"}
    BY DEF Trapping, Rfe
  <1> QED
    BY <1>1, VectorIsAddress DEF Taken, MayTake

(* The steps of the system, sorted by what they do to the invariant. *)
LEMMA StepKinds ==
    ASSUME IInv, [Next]_vars
    PROVE  \/ Taken \/ Returned \/ Finished \/ Handled \/ Worked
           \/ UNCHANGED <<pc, npc, inDelaySlot, llbit, epc, status, cause,
                          frames, nest, intact>>
  <1>1. CASE Interruptible /\ Take("irq", General)
    BY <1>1, IrqIsTaken
  <1>2. CASE UserInstr
    <2>1. InUser /\ (Fault \/ Trapping \/ (Kind[pc] = "rfe" /\ Rfe) \/ Finishes)
      BY <1>2 DEF UserInstr, Finishes
    <2> QED
      BY <2>1, FaultIsTaken, UserTrapIsTaken DEF Finished
  <1>3. CASE KernelInstr
    <2>1. CASE Works
      <3>1. CASE Affordable /\ Fault
        BY <3>1, FaultIsTaken
      <3>2. CASE ~ (Affordable /\ Fault)
        BY <1>3, <2>1, <3>2 DEF KernelInstr, Works, Worked
      <3> QED
        BY <3>1, <3>2
    <2>2. CASE Top.leaving /\ Rfe
      BY <1>3, <2>2 DEF KernelInstr, Rfe, Returned
    <2>3. CASE SaveEpc \/ SaveStatus \/ EnableIrqs \/ RestoreStatus \/ Return
      BY <1>3, <2>3 DEF KernelInstr, Handled
    <2> QED
      BY <1>3, <2>1, <2>2, <2>3 DEF KernelInstr
  <1>4. CASE Device
    BY <1>4 DEF Device
  <1>5. CASE UNCHANGED vars
    BY <1>5 DEF vars
  <1> QED
    BY <1>1, <1>2, <1>3, <1>4, <1>5 DEF Next, cpuCycle

LEMMA WorkedTypes ==
    ASSUME Shape, Worked
    PROVE  /\ pc' \in Int /\ npc' \in Int /\ inDelaySlot' \in BOOLEAN
           /\ llbit' \in BOOLEAN /\ intact' \in BOOLEAN
           /\ UNCHANGED <<epc, status, cause, frames, nest>>
  <1>1. NoBranchTaken \/ \E v \in Vector : BranchTo(v)
    BY DEF Worked, Goes, Ll, Sc
  <1>2. pc' \in Int /\ npc' \in Int
    BY <1>1, VectorIsAddress DEF NoBranchTaken, BranchTo, Shape
  <1>3. inDelaySlot' \in BOOLEAN
    BY <1>1 DEF NoBranchTaken, BranchTo
  <1>4. InUser \in BOOLEAN
    BY DEF InUser, Shape, Mode
  <1>5. llbit' \in BOOLEAN /\ intact' \in BOOLEAN
    BY <1>4 DEF Worked, Goes, Ll, Sc, Shape
  <1>6. UNCHANGED <<epc, status, cause, frames, nest>>
    BY DEF Worked, Goes, Ll, Sc
  <1> QED
    BY <1>2, <1>3, <1>5, <1>6

(* Every step keeps the invariant. *)
LEMMA StepKeeps ==
    ASSUME IInv, [Next]_vars
    PROVE  IInv'
  <1>1. CASE Taken
    BY <1>1, TakeKeeps DEF IInv, Taken
  <1>2. CASE Returned
    BY <1>2, RfeKeeps DEF IInv, Returned
  <1>3. CASE Finished
    BY <1>3, FinishesKeeps DEF IInv, Finished
  <1>4. CASE Handled
    BY <1>4, HandlerKeeps DEF IInv, Handled
  <1>5. CASE Worked
    BY <1>5, WorkedTypes, OtherKeeps DEF IInv, Worked
  <1>6. CASE UNCHANGED <<pc, npc, inDelaySlot, llbit, epc, status, cause,
                         frames, nest, intact>>
    BY <1>6 DEF IInv, Shape, HandlersInv, FrameInv, NestInv, TopInv, FlowInv,
                Unsaved, Beyond, InUser, AfterJump
  <1> QED
    BY <1>1, <1>2, <1>3, <1>4, <1>5, <1>6, StepKinds

LEMMA InitIInv == Init => IInv
  <1> SUFFICES ASSUME Init PROVE IInv
    OBVIOUS
  <1>1. frames = <<>> /\ nest = <<>> /\ Len(frames) = 0 /\ Len(nest) = 0
    BY EmptySeq DEF Init
  <1>2. status \in [cur : Mode, prev : Mode, old : Mode] /\ status.cur.ku
    BY KernelOffIsMode DEF Init, Mode
  <1>3. Shape
    <2>1. pc \in Int /\ npc \in Int /\ epc \in Int
      BY DEF Init
    <2>2. inDelaySlot \in BOOLEAN /\ llbit \in BOOLEAN /\ intact \in BOOLEAN
      BY DEF Init
    <2>3. cause \in [bd : BOOLEAN, code : {"irq", "fault", "trap"}]
      BY DEF Init
    <2>4. frames \in Seq(Frame) /\ nest \in Seq(Interrupted)
      BY <1>1, EmptySeq
    <2> QED
      BY <1>1, <1>2, <2>1, <2>2, <2>3, <2>4 DEF Shape
  <1>4. 0 \in User /\ ~ AfterJump(0)
    BY CodeAssumption DEF CodeAssumption, User, AfterJump
  <1>5. FlowInv
    BY <1>1, <1>4 DEF Init, FlowInv
  <1>6. HandlersInv
    BY <1>1, <1>2, <1>5 DEF HandlersInv, InUser
  <1> QED
    BY <1>3, <1>6 DEF IInv

LEMMA Inductive == Spec => []IInv
  <1>1. IInv /\ [Next]_vars => IInv'
    BY StepKeeps
  <1> QED
    BY InitIInv, <1>1, PTL DEF Spec

(* However exceptions nest and are returned from, what each of them        *)
(* interrupted is kept in a register or in its handler's frame, for every  *)
(* program and any depth (cpu.c:283-327, 1387-1392).                       *)
THEOREM HandlersKeepEverything == Spec => []HandlersInv
  <1>1. IInv => HandlersInv
    BY DEF IInv
  <1> QED
    BY <1>1, Inductive, PTL

(* The program runs in user mode and no handler does. *)
THEOREM PrivilegeStays == Spec => []UserStaysUser
  <1>1. IInv => UserStaysUser
    BY DEF IInv, HandlersInv, UserStaysUser
  <1> QED
    BY <1>1, Inductive, PTL
-----------------------------------------------------------------------------
(* An exception adds a level on top. *)
LEMMA TakeLevels ==
    ASSUME IInv, NEW code, NEW v, Take(code, v)
    PROVE  /\ Len(nest') = Len(nest) + 1
           /\ \A i \in 1 .. Len(nest) : nest'[i] = nest[i]
           /\ nest'[Len(nest) + 1].at = Unit
           /\ nest'[Len(nest) + 1].next = IF code = "trap" THEN npc ELSE Unit
  <1> DEFINE new == [at |-> Unit, mode |-> status.cur,
                     next |-> IF code = "trap" THEN npc ELSE Unit]
  <1>1. new \in Interrupted
    <2>1. Unit \in Int /\ npc \in Int
      BY DEF IInv, Shape, Unit
    <2> QED
      BY <2>1 DEF IInv, Shape, Interrupted
  <1>2. nest' = Append(nest, new)
    BY DEF Take
  <1>3. new.at = Unit /\ new.next = IF code = "trap" THEN npc ELSE Unit
    OBVIOUS
  <1> HIDE DEF new
  <1> QED
    BY <1>1, <1>2, <1>3, Pushed DEF IInv, Shape

(* Only a return takes a level away. *)
LEMMA LevelsOf ==
    ASSUME IInv
    PROVE  /\ Taken => Len(nest') = Len(nest) + 1
           /\ Finished \/ Handled \/ Worked => nest' = nest
  <1>2. Taken => Len(nest') = Len(nest) + 1
    BY TakeLevels DEF Taken
  <1>3. Finished => nest' = nest
    BY FinishesFrame DEF Finished, IInv
  <1>4. Handled => nest' = nest
    BY DEF Handled, SaveEpc, SaveStatus, EnableIrqs, RestoreStatus, Return,
           KeepsFrame
  <1>5. Worked => nest' = nest
    BY DEF Worked, Goes, Ll, Sc
  <1> QED
    BY <1>2, <1>3, <1>4, <1>5

(* Handlers return where and in the mode they should, at any depth. *)
THEOREM HandlersReturn == Spec => ReturnsWhereItWas
  <1>1. ASSUME IInv, [Next]_vars, Len(nest') < Len(nest)
        PROVE  /\ pc' = nest[Len(nest)].next
               /\ npc' = pc' + 1
               /\ status'.cur = nest[Len(nest)].mode
    <2>1. Len(nest) \in Nat
      BY <1>1, LenProperties DEF IInv, Shape
    <2>2. CASE Returned
      BY <1>1, <2>2, RfeKeeps DEF IInv, Returned
    <2>3. ~ Taken /\ ~ Finished /\ ~ Handled /\ ~ Worked /\ nest' # nest
      BY <1>1, <2>1, LevelsOf
    <2> QED
      BY <1>1, <2>2, <2>3, StepKinds
  <1>2. IInv /\ [Next]_vars =>
          [Len(nest') < Len(nest) =>
             /\ pc' = nest[Len(nest)].next
             /\ npc' = pc' + 1
             /\ status'.cur = nest[Len(nest)].mode]_vars
    BY <1>1
  <1> QED
    BY Inductive, <1>2, PTL DEF Spec, ReturnsWhereItWas

(* A link does not outlive an exception. *)
THEOREM LinksStayIntact == Spec => []LinkIntact
  <1>1. Init => LinkIntact
    BY DEF Init, LinkIntact
  <1>2. ASSUME IInv, IInv', LinkIntact, [Next]_vars
        PROVE  LinkIntact'
    <2>1. CASE Taken
      BY <2>1, KernelOffIsMode
         DEF Taken, Take, Shifted, KernelOff, LinkIntact, InUser
    <2>2. CASE Returned
      BY <2>2 DEF Returned, DoRfe, LinkIntact
    <2>3. CASE Finished
      <3>1. InUser /\ Finishes
        BY <2>3 DEF Finished
      <3>2. \/ intact' = InUser \/ llbit' = FALSE
            \/ llbit' = llbit /\ intact' = intact
        BY <3>1 DEF Finishes, Straight, Branching, Skipping, Goes, Ll, Sc
      <3> QED
        BY <1>2, <3>1, <3>2 DEF LinkIntact
    <2>4. CASE Handled \/ Worked
      <3>1. nest' = nest /\ nest # <<>>
        BY <1>2, <2>4, LevelsOf DEF Handled, Worked, IInv, HandlersInv
      <3> QED
        BY <1>2, <3>1 DEF IInv, HandlersInv, LinkIntact
    <2>5. CASE UNCHANGED <<pc, npc, inDelaySlot, llbit, epc, status, cause,
                           frames, nest, intact>>
      BY <1>2, <2>5 DEF LinkIntact, InUser
    <2> QED
      BY <1>2, <2>1, <2>2, <2>3, <2>4, <2>5, StepKinds
  <1> QED
    BY Inductive, <1>1, <1>2, PTL DEF Spec
-----------------------------------------------------------------------------
(* The program's place, as the mapping of Program has it. *)
At == IF nest = <<>> THEN Unit ELSE nest[1].at

(* What was interrupted first is resumed where it was, or, when it         *)
(* trapped, after that.                                                    *)
Resumes ==
    nest # <<>> =>
        nest[1].next \in {nest[1].at} \cup Program!Succ(nest[1].at)

(* What follows the instruction at pc is what UserCode says of the unit.   *)
LEMMA NextIsSucc ==
    ASSUME IInv, InUser, Kind[pc] \notin {"likely", "jump"}
    PROVE  npc \in Program!Succ(Unit)
  <1>1. FlowInv
    BY DEF IInv, HandlersInv
  <1>2. CASE inDelaySlot
    <2>1. Kind[pc - 1] \in Branches /\ npc = Target[pc - 1]
      BY <1>1, <1>2 DEF FlowInv
    <2> QED
      BY <1>2, <2>1 DEF Program!Succ, Unit, Branches
  <1>3. CASE ~ inDelaySlot
    BY <1>1, <1>3 DEF FlowInv, Program!Succ, Unit
  <1> QED
    BY <1>2, <1>3

LEMMA TakeMaps ==
    ASSUME IInv, Resumes, Taken
    PROVE  Resumes' /\ At' = At
  <1>1. PICK code \in {"irq", "fault", "trap"}, v \in Vector :
           MayTake(code) /\ Take(code, v)
    BY DEF Taken
  <1>2. PICK n \in Nat : n = Len(nest)
    BY LenProperties DEF IInv, Shape
  <1>3. /\ Len(nest') = n + 1
        /\ \A i \in 1 .. n : nest'[i] = nest[i]
        /\ nest'[n + 1].at = Unit
        /\ nest'[n + 1].next = IF code = "trap" THEN npc ELSE Unit
    BY <1>1, <1>2, TakeLevels
  <1>4. (n = 0 <=> nest = <<>>) /\ nest' # <<>>
    BY <1>2, <1>3, EmptySeq DEF IInv, Shape
  <1>5. CASE n = 0
    <2>1. InUser /\ nest = <<>>
      BY <1>4, <1>5 DEF IInv, HandlersInv
    <2>2. code = "trap" => npc \in Program!Succ(Unit)
      BY <1>1, <2>1, NextIsSucc DEF MayTake
    <2>3. nest'[1].at = Unit /\ nest'[1].next = IF code = "trap" THEN npc ELSE Unit
      BY <1>3, <1>5
    <2> QED
      BY <1>4, <2>1, <2>2, <2>3 DEF Resumes, At, Program!Succ
  <1>6. CASE n > 0
    <2>1. nest'[1] = nest[1] /\ nest # <<>>
      BY <1>3, <1>4, <1>6
    <2> QED
      BY <1>4, <2>1 DEF Resumes, At, Program!Succ
  <1> QED
    BY <1>5, <1>6

LEMMA RfeMaps ==
    ASSUME IInv, Resumes, Returned
    PROVE  Resumes' /\ At' \in {At} \cup Program!Succ(At)
  <1>1. PICK n \in Nat : n = Len(nest)
    BY LenProperties DEF IInv, Shape
  <1>2. /\ n >= 1 /\ nest # <<>>
        /\ Len(nest') = n - 1 /\ pc' = nest[n].next
        /\ \A i \in 1 .. n - 1 : nest'[i] = nest[i]
    BY <1>1, RfeKeeps, SomeHandler DEF IInv, Returned
  <1>3. ~ inDelaySlot'
    BY DEF Returned, DoRfe, NoBranchTaken
  <1>4. nest' = <<>> <=> n = 1
    <2>1. nest' \in Seq(Interrupted)
      BY RfeKeeps DEF IInv, Returned, Shape
    <2> QED
      BY <1>2, <2>1, EmptySeq
  <1>5. CASE n = 1
    <2>1. nest' = <<>> /\ At' = nest[1].next /\ At = nest[1].at
      BY <1>2, <1>3, <1>4, <1>5 DEF At, Unit
    <2> QED
      BY <1>2, <2>1 DEF Resumes
  <1>6. CASE n > 1
    <2>1. nest'[1] = nest[1] /\ nest' # <<>>
      BY <1>2, <1>4, <1>6
    <2> QED
      BY <1>2, <2>1 DEF Resumes, At, Program!Succ
  <1> QED
    BY <1>2, <1>5, <1>6

LEMMA FinishMaps ==
    ASSUME IInv, Resumes, Finished
    PROVE  Resumes' /\ At' \in {At} \cup Program!Succ(At)
  <1>1. /\ InUser /\ Finishes /\ nest = <<>> /\ nest' = <<>>
        /\ FlowInv /\ Shape /\ At = Unit /\ At' = Unit'
    BY FinishesFrame DEF Finished, IInv, HandlersInv, At
  <1>2. CASE NoBranchTaken /\ Kind[pc] \notin {"likely", "jump"}
    <2>1. Unit' = npc
      BY <1>2 DEF NoBranchTaken, Unit
    <2> QED
      BY <1>1, <1>2, <2>1, NextIsSucc DEF Resumes
  <1>3. CASE BranchTo(Target[pc]) /\ Kind[pc] \in Branches
    <2>1. ~ inDelaySlot
      BY <1>1, <1>3, UserPlaces
    <2>2. Unit' = npc - 1 /\ npc = pc + 1 /\ Unit = pc
      BY <1>1, <1>3, <2>1 DEF BranchTo, Unit, FlowInv
    <2>3. Unit' = Unit
      BY <1>1, <2>2 DEF Shape
    <2> QED
      BY <1>1, <2>3 DEF Resumes
  <1>4. CASE SkipNextInstr /\ Kind[pc] = "likely"
    <2>1. ~ inDelaySlot
      BY <1>1, <1>4, UserPlaces DEF Branches
    <2>2. Unit' = npc + 1 /\ npc = pc + 1 /\ Unit = pc
      BY <1>1, <1>4, <2>1 DEF SkipNextInstr, Unit, FlowInv
    <2>3. Unit' = pc + 2
      BY <1>1, <2>2 DEF Shape
    <2> QED
      BY <1>1, <1>4, <2>2, <2>3 DEF Resumes, Program!Succ
  <1> QED
    BY <1>1, <1>2, <1>3, <1>4, FinishesFrame

(* The program runs as if there were no exceptions: every step of the      *)
(* processor is one of UserCode or leaves the program where it is.         *)
THEOREM ProgramsDoNotNotice == Spec => ImplementsProgram
  <1>1. Init => Program!Init /\ Resumes
    BY DEF Init, Program!Init, Resumes, Unit
  <1>2. ASSUME IInv, Resumes, [Next]_vars
        PROVE  Resumes' /\ At' \in {At} \cup Program!Succ(At)
    <2>1. CASE Handled \/ Worked
      <3>1. nest' = nest /\ nest # <<>>
        BY <1>2, <2>1, LevelsOf DEF Handled, Worked, IInv, HandlersInv
      <3> QED
        BY <1>2, <3>1 DEF Resumes, At, Program!Succ
    <2>2. CASE UNCHANGED <<pc, npc, inDelaySlot, llbit, epc, status, cause,
                           frames, nest, intact>>
      BY <1>2, <2>2 DEF Resumes, At, Unit, Program!Succ
    <2> QED
      BY <1>2, <2>1, <2>2, TakeMaps, RfeMaps, FinishMaps, StepKinds
  <1>3. IInv /\ Resumes /\ [Next]_vars => Resumes' /\ [Program!Next]_At
    BY <1>2 DEF Program!Next, At
  <1> QED
    BY Inductive, <1>1, <1>3, PTL DEF Spec, ImplementsProgram, Program!Spec, At
-----------------------------------------------------------------------------
(* Where the kernel is, and what bounds the nesting. *)
Places ==
    /\ epc \in User \cup Kernel
    /\ ~ InUser => pc \in Kernel
    /\ (~ InUser /\ inDelaySlot) => pc - 1 \in Kernel
    /\ (~ InUser /\ ~ inDelaySlot) => npc = pc + 1
    /\ (~ InUser /\ ~ Top.leaving) => npc \in Kernel
    /\ \A i \in 2 .. Len(nest) :
          nest[i].next \in Kernel /\ nest[i].next + 1 \in Kernel
    /\ Len(nest) <= MaxNest
    /\ (~ InUser /\ status.cur.ie) => Len(nest) < MaxNest

(* A step within the kernel that takes no exception and returns from none. *)
LEMMA StayingPlaces ==
    ASSUME IInv, Places, ~ InUser, ~ InUser', UNCHANGED <<epc, nest>>,
           pc' \in Kernel,
           inDelaySlot' => pc' - 1 \in Kernel,
           ~ inDelaySlot' => npc' = pc' + 1,
           Top'.leaving \/ npc' \in Kernel,
           status'.cur.ie => status.cur.ie \/ Len(nest) < MaxNest
    PROVE  Places'
  <1>1. (~ Top.leaving)' => npc' \in Kernel
    OBVIOUS
  <1> QED
    BY <1>1 DEF Places, InUser

LEMMA TakePlaces ==
    ASSUME IInv, Places, Taken
    PROVE  Places'
  <1>1. PICK code \in {"irq", "fault", "trap"}, v \in Vector :
           MayTake(code) /\ Take(code, v)
    BY DEF Taken
  <1>2. PICK n \in Nat : n = Len(nest)
    BY LenProperties DEF IInv, Shape
  <1>3. /\ Len(nest') = n + 1
        /\ \A i \in 1 .. n : nest'[i] = nest[i]
        /\ nest'[n + 1].next = IF code = "trap" THEN npc ELSE Unit
    BY <1>1, <1>2, TakeLevels
  <1>4. /\ epc' = Unit /\ pc' = v /\ npc' = v + 1 /\ ~ inDelaySlot'
        /\ ~ InUser' /\ ~ status'.cur.ie
    BY <1>1 DEF Take, Epc, Unit, Shifted, KernelOff, InUser
  <1>5. v \in Kernel /\ v + 1 \in Kernel
    BY KernelAssumption DEF KernelAssumption, Vector, Kernel
  <1>6. ~ InUser => Unit \in Kernel /\ Unit + 1 \in Kernel
    <2> SUFFICES ASSUME ~ InUser PROVE Unit \in Kernel /\ Unit + 1 \in Kernel
      OBVIOUS
    <2>1. CASE inDelaySlot
      BY <2>1 DEF Places, Unit, IInv, Shape
    <2>2. CASE ~ inDelaySlot
      <3>1. ~ Top.leaving
        BY <1>1, <2>2, SomeHandler DEF MayTake, IInv
      <3> QED
        BY <2>2, <3>1 DEF Places, Unit
    <2> QED
      BY <2>1, <2>2
  <1>7. epc' \in User \cup Kernel
    <2>1. CASE InUser
      BY <1>4, <2>1, UserPlaces DEF IInv, HandlersInv
    <2>2. CASE ~ InUser
      BY <1>4, <1>6, <2>2
    <2> QED
      BY <2>1, <2>2
  <1>8. n > 0 <=> ~ InUser
    BY <1>2, EmptySeq DEF IInv, Shape, HandlersInv
  <1>9. code = "trap" => InUser
    BY <1>1 DEF MayTake
  <1>10. \A i \in 2 .. n + 1 :
            nest'[i].next \in Kernel /\ nest'[i].next + 1 \in Kernel
    BY <1>2, <1>3, <1>6, <1>8, <1>9 DEF Places
  <1>11. n + 1 <= MaxNest
    <2>1. CASE InUser
      BY <1>8, <2>1, KernelAssumption DEF KernelAssumption
    <2>2. CASE ~ InUser
      BY <1>1, <1>2, <2>2, KernelAssumption
         DEF MayTake, Places, KernelAssumption
    <2> QED
      BY <2>1, <2>2
  <1> QED
    BY <1>3, <1>4, <1>5, <1>7, <1>10, <1>11 DEF Places

LEMMA RfePlaces ==
    ASSUME IInv, Places, Returned
    PROVE  Places'
  <1>1. PICK n \in Nat : n = Len(nest)
    BY LenProperties DEF IInv, Shape
  <1>2. /\ n >= 1 /\ Len(nest') = n - 1
        /\ pc' = nest[n].next /\ npc' = pc' + 1
        /\ \A i \in 1 .. n - 1 : nest'[i] = nest[i]
    BY <1>1, RfeKeeps, SomeHandler DEF IInv, Returned
  <1>3. ~ inDelaySlot' /\ epc' = epc
    BY DEF Returned, DoRfe, NoBranchTaken
  <1>4. ~ InUser' => n > 1
    <2>1. nest' \in Seq(Interrupted) /\ (InUser' <=> nest' = <<>>)
      BY RfeKeeps DEF IInv, Returned, Shape, HandlersInv
    <2> QED
      BY <1>2, <2>1, EmptySeq
  <1>5. n > 1 => nest[n].next \in Kernel /\ nest[n].next + 1 \in Kernel
    BY <1>1 DEF Places
  <1>6. n <= MaxNest /\ MaxNest \in Nat
    BY <1>1, KernelAssumption DEF Places, KernelAssumption
  <1>7. \A i \in 2 .. n - 1 :
           nest'[i].next \in Kernel /\ nest'[i].next + 1 \in Kernel
    BY <1>1, <1>2 DEF Places
  <1> QED
    BY <1>2, <1>3, <1>4, <1>5, <1>6, <1>7 DEF Places

LEMMA HandledPlaces ==
    ASSUME IInv, IInv', Places, Handled
    PROVE  Places'
  <1>1. /\ ~ InUser /\ nest' = nest /\ nest # <<>> /\ epc' = epc
        /\ ~ inDelaySlot /\ ~ Top.leaving
    BY LevelsOf DEF Handled, SaveEpc, SaveStatus, EnableIrqs, RestoreStatus,
                    Return, Steps, KeepsFrame, IInv, HandlersInv
  <1>2. ~ InUser'
    BY <1>1 DEF IInv, HandlersInv
  <1>3. pc \in Kernel /\ npc \in Kernel /\ npc = pc + 1
    BY <1>1 DEF Places
  <1>4. CASE Return
    <2>1. pc' = npc /\ inDelaySlot' = TRUE /\ status' = status
      BY <1>4 DEF Return, BranchTo
    <2>2. pc' - 1 = pc
      BY <1>3, <2>1 DEF IInv, Shape
    <2>3. Top'.leaving
      <3>1. frames \in Seq(Frame) /\ frames # <<>> /\ Top \in Frame
        BY <1>1, SomeHandler DEF IInv, Shape
      <3>2. /\ [Top EXCEPT !.leaving = TRUE] \in Frame
            /\ [Top EXCEPT !.leaving = TRUE].leaving
        BY <3>1 DEF Frame
      <3>3. frames' = [frames EXCEPT ![Len(frames)] =
                         [Top EXCEPT !.leaving = TRUE]]
        BY <1>4 DEF Return, KeepsFrame
      <3> QED
        BY <3>1, <3>2, <3>3, Replaced DEF Top
    <2> QED
      BY <1>1, <1>2, <1>3, <2>1, <2>2, <2>3, StayingPlaces
  <1>5. CASE SaveEpc \/ SaveStatus \/ EnableIrqs \/ RestoreStatus
    <2>1. pc' = npc /\ npc' = npc + 1 /\ ~ inDelaySlot' /\ npc' \in Kernel
      BY <1>5 DEF SaveEpc, SaveStatus, EnableIrqs, RestoreStatus, Steps,
                  NoBranchTaken
    <2>2. status'.cur.ie => status.cur.ie \/ Len(nest) < MaxNest
      BY <1>5 DEF SaveEpc, SaveStatus, EnableIrqs, RestoreStatus, Affordable,
                  Mtc0Status, KernelOff
    <2> QED
      BY <1>1, <1>2, <1>3, <2>1, <2>2, StayingPlaces
  <1> QED
    BY <1>4, <1>5 DEF Handled

LEMMA WorkedPlaces ==
    ASSUME IInv, IInv', Places, Worked
    PROVE  Places'
  <1>1. /\ ~ InUser /\ ~ Top.leaving /\ nest # <<>>
        /\ UNCHANGED <<epc, status, frames, nest>>
    BY WorkedTypes DEF Worked, IInv, HandlersInv
  <1>2. ~ InUser'
    BY <1>1 DEF InUser
  <1>3. pc \in Kernel /\ npc \in Kernel
    BY <1>1 DEF Places
  <1>4. CASE NoBranchTaken /\ npc' \in Kernel
    <2>1. pc' = npc /\ npc' = npc + 1 /\ ~ inDelaySlot'
      BY <1>4 DEF NoBranchTaken
    <2> QED
      BY <1>1, <1>2, <1>3, <1>4, <2>1, StayingPlaces
  <1>5. CASE ~ inDelaySlot /\ \E v \in Vector : BranchTo(v)
    <2>1. pc' = npc /\ npc' \in Vector /\ inDelaySlot' = TRUE
      BY <1>5 DEF BranchTo
    <2>2. npc = pc + 1
      BY <1>1, <1>5 DEF Places
    <2>3. pc' - 1 = pc
      BY <2>1, <2>2 DEF IInv, Shape
    <2>4. npc' \in Kernel
      BY <2>1, KernelAssumption DEF KernelAssumption, Vector, Kernel
    <2> QED
      BY <1>1, <1>2, <1>3, <2>1, <2>3, <2>4, StayingPlaces
  <1> QED
    BY <1>4, <1>5 DEF Worked, Goes, Ll, Sc

LEMMA PlacesKept ==
    ASSUME IInv, IInv', Places, [Next]_vars
    PROVE  Places'
  <1>1. CASE Finished
    <2>1. epc' = epc /\ nest' = <<>> /\ InUser'
      BY <1>1, FinishesFrame DEF Finished, IInv, HandlersInv, InUser
    <2>2. Len(nest') = 0
      BY <2>1, EmptySeq
    <2> QED
      BY <2>1, <2>2, KernelAssumption DEF Places, KernelAssumption
  <1>2. CASE UNCHANGED <<pc, npc, inDelaySlot, llbit, epc, status, cause,
                         frames, nest, intact>>
    BY <1>2 DEF Places, InUser, Top
  <1> QED
    BY <1>1, <1>2, StepKinds, TakePlaces, RfePlaces, HandledPlaces, WorkedPlaces

LEMMA IrqStaysBoolean ==
    ASSUME irq \in BOOLEAN, [Next]_vars
    PROVE  irq' \in BOOLEAN
  BY DEF Next, vars, Device, cpuCycle, Take, UserInstr, KernelInstr, Fault,
         Straight, Branching, Skipping, Trapping, Ll, Sc, Rfe, DoRfe, Goes,
         SaveEpc, SaveStatus, EnableIrqs, RestoreStatus, Return, Works,
         KeepsFrame

(* Where the places are, with the interrupt line, is all that TypeOK says  *)
(* beyond the strengthening.                                               *)
Placed == Places /\ irq \in BOOLEAN

(* Every variable keeps its type: the program and the handlers stay where  *)
(* they belong, at any depth.                                              *)
THEOREM TypeCorrect == Spec => []TypeOK
  <1>1. Init => Placed
    <2> SUFFICES ASSUME Init PROVE Placed
      OBVIOUS
    <2>1. nest = <<>> /\ Len(nest) = 0 /\ InUser /\ epc = 0 /\ irq \in BOOLEAN
      BY EmptySeq DEF Init, InUser
    <2>2. 0 \in User
      BY CodeAssumption DEF CodeAssumption, User
    <2> QED
      BY <2>1, <2>2, KernelAssumption DEF Placed, Places, KernelAssumption
  <1>2. IInv /\ IInv' /\ Placed /\ [Next]_vars => Placed'
    BY PlacesKept, IrqStaysBoolean DEF Placed
  <1>3. IInv /\ Placed => TypeOK
    <2> SUFFICES ASSUME IInv, Placed PROVE TypeOK
      OBVIOUS
    <2>0. Places /\ irq \in BOOLEAN
      BY DEF Placed
    <2>1. pc \in User \cup Kernel
      BY <2>0 DEF Places, IInv, HandlersInv, FlowInv
    <2>2. npc \in User \cup Kernel
      <3>1. CASE InUser
        <4>1. FlowInv
          BY <2>0 DEF IInv, HandlersInv
        <4>2. CASE inDelaySlot
          BY <2>0, <3>1, <4>1, <4>2, UserPlaces DEF IInv
        <4>3. CASE ~ inDelaySlot
          BY <3>1, <4>1, <4>3, CodeAssumption DEF CodeAssumption, FlowInv
        <4> QED
          BY <4>2, <4>3
      <3>2. CASE ~ InUser /\ ~ Top.leaving
        BY <2>0, <3>2 DEF Places
      <3>3. CASE ~ InUser /\ Top.leaving
        <4>1. PICK n \in Nat : n = Len(nest)
          BY <3>3, <2>0, SomeHandler DEF IInv
        <4>2. n >= 1 /\ TopInv(n) /\ FrameInv(n) /\ frames[n].leaving
              /\ nest # <<>>
          BY <2>0, <3>3, <4>1, SomeHandler DEF IInv, Level
        <4>3. npc = nest[n].next
          BY <4>2 DEF TopInv, FrameInv
        <4>4. CASE n = 1
          BY <2>0, <4>2, <4>3, <4>4 DEF IInv, HandlersInv, FlowInv
        <4>5. CASE n > 1
          BY <2>0, <4>1, <4>3, <4>5 DEF Places
        <4> QED
          BY <4>2, <4>4, <4>5
      <3> QED
        BY <3>1, <3>2, <3>3
    <2>3. Len(nest) \in 0 .. MaxNest /\ Len(frames) = Len(nest)
      BY <2>0, LenProperties, KernelAssumption
         DEF Places, IInv, Shape, KernelAssumption
    <2> QED
      BY <2>0, <2>1, <2>2, <2>3 DEF TypeOK, Places, IInv, Shape
  <1> QED
    BY Inductive, <1>1, <1>2, <1>3, PTL DEF Spec
=============================================================================
