----------------------------- MODULE DZ11_proofs -----------------------------
(***************************************************************************)
(* Theorems about the serial controller, for every number of lines, size   *)
(* of the ring buffers, height of the alarm and width of the counter.      *)
(* Calls are whole steps; at the end module IrqRace takes them apart.      *)
(***************************************************************************)
EXTENDS DZ11, IrqRace, SequenceTheorems, WellFoundedInduction, TLAPS

(* A set of natural numbers that is not empty has a least element: < is    *)
(* well founded, and the set has a minimal element.                        *)
LEMMA LeastNat ==
    ASSUME NEW T, T \subseteq Nat, T # {}
    PROVE  \E x \in T : \A y \in T : x <= y
<1>. DEFINE R == OpToRel(<, Nat)
<1>1. IsWellFoundedOn(R, Nat)
    BY NatLessThanWellFounded
<1>2. ASSUME NEW x \in Nat, NEW y \in Nat, y < x
      PROVE  <<y, x>> \in R
    <2>1. <<y, x>> \in Nat \X Nat /\ <<y, x>>[1] < <<y, x>>[2]
        BY <1>2
    <2>. QED  BY <2>1 DEF OpToRel
<1>. HIDE DEF R
<1>3. PICK x \in T : \A y \in T : ~ (<<y, x>> \in R)
    BY <1>1, WFMin
<1>4. ASSUME NEW y \in T
      PROVE  x <= y
    <2>1. x \in Nat /\ y \in Nat
        OBVIOUS
    <2>2. ~ (y < x)
        BY <1>2, <1>3, <2>1
    <2>. QED  BY <2>1, <2>2
<1>. QED  BY <1>4

(* Highest finds the highest of some lines: counted down from the top, it  *)
(* is the least.                                                           *)
LEMMA HighestIs ==
    ASSUME NEW T, T \subseteq Line, T # {}
    PROVE  Highest(T) \in T /\ \A m \in T : m <= Highest(T)
<1>. DEFINE U == {NumUarts - x : x \in T}
<1>1. NumUarts \in Nat /\ \A x \in T : x \in 0 .. NumUarts - 1
    BY DZ11Assumption DEF Line
<1>2. U \subseteq Nat /\ U # {}
    BY <1>1
<1>3. PICK u \in U : \A v \in U : u <= v
    BY <1>2, LeastNat
<1>4. PICK x \in T : u = NumUarts - x
    OBVIOUS
<1>5. ASSUME NEW y \in T
      PROVE  y <= x
    <2>1. NumUarts - x <= NumUarts - y
        BY <1>3, <1>4
    <2>. QED  BY <1>1, <2>1
<1>. QED  BY <1>4, <1>5 DEF Highest
-----------------------------------------------------------------------------
(* The calculated bits agree with what they are calculated from. *)
Cached(d) ==
    Enabled(d) =>
        /\ d.rdone <=> \E n \in Line : d.line[n].rxBytesUsed > 0
        /\ d.sa <=> \E n \in Line : d.line[n].nBytes >= AlarmCount
        /\ d.trdy <=> d.tcr # {}
        /\ d.tcr # {} => d.txLine = Highest(d.tcr)

(* A recalc leaves lines and control bits alone, and the calculated bits   *)
(* agree after it.                                                         *)
LEMMA RecalcKeeps ==
    ASSUME NEW d \in Device
    PROVE  /\ Recalc(d) \in Device
           /\ Recalc(d).line = d.line
           /\ Recalc(d).csr = d.csr
           /\ Recalc(d).tcr = d.tcr
           /\ Cached(Recalc(d))
<1>1. CASE ~ Enabled(d)
    BY <1>1 DEF Recalc, Cached
<1>2. CASE Enabled(d)
    <2>. DEFINE r == [d EXCEPT
            !.rdone  = \E n \in Line : d.line[n].rxBytesUsed > 0,
            !.sa     = \E n \in Line : d.line[n].nBytes >= AlarmCount,
            !.trdy   = d.tcr # {},
            !.txLine = IF d.tcr # {} THEN Highest(d.tcr) ELSE d.txLine]
    <2>1. Recalc(d) = r
        BY <1>2 DEF Recalc
    <2>2. d.tcr \subseteq Line /\ d.txLine \in Line
        BY DEF Device
    <2>3. d.tcr # {} => Highest(d.tcr) \in Line
        BY <2>2, HighestIs
    <2>4. r.line = d.line /\ r.csr = d.csr /\ r.tcr = d.tcr
        BY DEF Device
    <2>5. /\ r.rdone <=> \E n \in Line : d.line[n].rxBytesUsed > 0
          /\ r.sa <=> \E n \in Line : d.line[n].nBytes >= AlarmCount
          /\ r.trdy <=> d.tcr # {}
          /\ d.tcr # {} => r.txLine = Highest(d.tcr)
        BY DEF Device
    <2>6. r \in Device
        BY <2>2, <2>3 DEF Device
    <2>. QED  BY <2>1, <2>4, <2>5, <2>6 DEF Cached
<1>. QED  BY <1>1, <1>2
LEMMA LevelType ==
    ASSUME NEW d \in Device
    PROVE  Level(d) \in BOOLEAN
BY DEF Level, Enabled

LEMMA ClearedType == Cleared \in Device /\ ~ Enabled(Cleared)
<1>. DEFINE l == [buf |-> [i \in 0 .. BufSize - 1 |-> NUL], rxReadPtr |-> 0,
                  rxBytesUsed |-> 0, nBytes |-> 0,
                  rxOvr |-> FALSE, rxEna |-> FALSE]
<1>1. l \in LineState
    <2>1. l.buf \in [0 .. BufSize - 1 -> Char]
        BY DZ11Assumption
    <2>2. 0 \in 0 .. BufSize - 1 /\ 0 \in 0 .. BufSize /\ 0 \in 0 .. CounterMax
        BY DZ11Assumption
    <2>. QED  BY <2>1, <2>2 DEF LineState
<1>2. [n \in Line |-> l] \in [Line -> LineState]
    BY <1>1
<1>3. 0 \in Line
    BY DZ11Assumption DEF Line
<1>. QED  BY <1>2, <1>3 DEF Cleared, Device, Enabled

(* A line with room takes a character, and stays a line. *)
LEMMA PutType ==
    ASSUME NEW l \in LineState, NEW chr \in Char, l.rxBytesUsed < BufSize
    PROVE  /\ Put(l, chr) \in LineState
           /\ Put(l, chr).rxBytesUsed = l.rxBytesUsed + 1
           /\ Put(l, chr).rxEna = l.rxEna
           /\ Put(l, chr).rxOvr = l.rxOvr
           /\ Put(l, chr).rxReadPtr = l.rxReadPtr
           /\ Put(l, chr).buf =
                 [l.buf EXCEPT ![(l.rxReadPtr + l.rxBytesUsed) % BufSize] = chr]
<1>. DEFINE i == (l.rxReadPtr + l.rxBytesUsed) % BufSize
<1>1. i \in 0 .. BufSize - 1
    BY DZ11Assumption DEF LineState
<1>2. l.rxBytesUsed + 1 \in 0 .. BufSize
    BY DZ11Assumption DEF LineState
<1>. HIDE DEF i
<1>. QED  BY <1>1, <1>2 DEF LineState, Put, i

LEMMA CountType ==
    ASSUME NEW n \in 0 .. CounterMax
    PROVE  Count(n) \in 0 .. CounterMax /\ Count(n) >= n
BY DZ11Assumption DEF Count

LEMMA DropType ==
    ASSUME NEW l \in LineState, l.rxBytesUsed > 0
    PROVE  Drop(l) \in LineState
<1>1. /\ l.rxBytesUsed - 1 \in 0 .. BufSize
      /\ (IF l.rxReadPtr + 1 = BufSize THEN 0 ELSE l.rxReadPtr + 1)
            \in 0 .. BufSize - 1
      /\ 0 \in 0 .. CounterMax
    BY DZ11Assumption DEF LineState
<1>. QED  BY <1>1 DEF LineState, Drop

(* What a character does to its line. *)
After(l, chr) == [IF l.rxBytesUsed >= BufSize THEN [l EXCEPT !.rxOvr = TRUE]
                                              ELSE Put(l, chr)
                    EXCEPT !.nBytes = Count(l.nBytes)]

LEMMA AfterType ==
    ASSUME NEW l \in LineState, NEW chr \in Char
    PROVE  /\ After(l, chr) \in LineState
           /\ After(l, chr).nBytes >= l.nBytes
           /\ After(l, chr).rxBytesUsed >= l.rxBytesUsed
           /\ After(l, chr).rxEna = l.rxEna
<1>. DEFINE m == IF l.rxBytesUsed >= BufSize THEN [l EXCEPT !.rxOvr = TRUE]
                                             ELSE Put(l, chr)
<1>1. l.rxBytesUsed \in 0 .. BufSize /\ BufSize \in Nat
    BY DZ11Assumption DEF LineState
<1>2. m \in LineState /\ m.rxBytesUsed >= l.rxBytesUsed /\ m.rxEna = l.rxEna
    <2>1. CASE l.rxBytesUsed >= BufSize
        <3>1. m = [l EXCEPT !.rxOvr = TRUE]
            BY <2>1
        <3>2. /\ [l EXCEPT !.rxOvr = TRUE] \in LineState
              /\ [l EXCEPT !.rxOvr = TRUE].rxBytesUsed = l.rxBytesUsed
              /\ [l EXCEPT !.rxOvr = TRUE].rxEna = l.rxEna
            BY DEF LineState
        <3>. HIDE DEF m
        <3>. QED  BY <1>1, <3>1, <3>2
    <2>2. CASE l.rxBytesUsed < BufSize
        <3>1. m = Put(l, chr)
            BY <1>1, <2>2
        <3>2. /\ Put(l, chr) \in LineState
              /\ Put(l, chr).rxBytesUsed = l.rxBytesUsed + 1
              /\ Put(l, chr).rxEna = l.rxEna
            BY <2>2, PutType
        <3>. HIDE DEF m
        <3>. QED  BY <1>1, <3>1, <3>2
    <2>. QED  BY <1>1, <2>1, <2>2
<1>3. Count(l.nBytes) \in 0 .. CounterMax /\ Count(l.nBytes) >= l.nBytes
    BY CountType DEF LineState
<1>. HIDE DEF m
<1>4. /\ [m EXCEPT !.nBytes = Count(l.nBytes)] \in LineState
      /\ [m EXCEPT !.nBytes = Count(l.nBytes)].nBytes = Count(l.nBytes)
      /\ [m EXCEPT !.nBytes = Count(l.nBytes)].rxBytesUsed = m.rxBytesUsed
      /\ [m EXCEPT !.nBytes = Count(l.nBytes)].rxEna = m.rxEna
    BY <1>2, <1>3 DEF LineState
<1>. QED  BY <1>2, <1>3, <1>4 DEF After, m

LEMMA CharRxType ==
    ASSUME NEW d \in Device, NEW n \in Line, NEW chr \in Char
    PROVE  /\ CharRx(d, n, chr) \in Device
           /\ CharRx(d, n, chr) = [d EXCEPT !.line[n] = After(d.line[n], chr)]
<1>1. CharRx(d, n, chr) = [d EXCEPT !.line[n] = After(d.line[n], chr)]
    BY DEF CharRx, After
<1>2. After(d.line[n], chr) \in LineState
    BY AfterType DEF Device
<1>. QED  BY <1>1, <1>2 DEF Device

LEMMA ReceivedType ==
    ASSUME NEW d \in Device, NEW n \in Line, NEW chr \in Char
    PROVE  /\ Received(d, n, chr) \in Device
           /\ Received(d, n, chr).csr = d.csr
           /\ Received(d, n, chr).tcr = d.tcr
           /\ Received(d, n, chr).line =
                 IF Listens(d, n) THEN [d.line EXCEPT ![n] = After(@, chr)]
                                  ELSE d.line
<1>1. /\ CharRx(d, n, chr) \in Device
      /\ CharRx(d, n, chr).csr = d.csr
      /\ CharRx(d, n, chr).tcr = d.tcr
      /\ CharRx(d, n, chr).line = [d.line EXCEPT ![n] = After(@, chr)]
    BY CharRxType DEF Device
<1>. QED  BY <1>1, RecalcKeeps DEF Received
-----------------------------------------------------------------------------
(* The inductive invariant: what the handlers leave behind is a device     *)
(* whose calculated bits, and whose interrupt, agree with it.              *)
DeviceInv == /\ gDZ11 \in Device
             /\ panic \in BOOLEAN
             /\ Cached(gDZ11)
             /\ irq = Level(gDZ11)

LEMMA BecomesKeeps ==
    ASSUME NEW d \in Device, Becomes(Recalc(d)), panic' \in BOOLEAN
    PROVE  DeviceInv'
<1>1. Recalc(d) \in Device /\ Cached(Recalc(d))
    BY RecalcKeeps
<1>2. gDZ11' = Recalc(d) /\ irq' = Level(gDZ11)'
    BY DEF Becomes, Level, Enabled
<1>3. Cached(gDZ11)'
    BY <1>1, <1>2 DEF Cached, Enabled
<1>. QED  BY <1>1, <1>2, <1>3 DEF DeviceInv

(* A line parameter word switches one receiver on or off. *)
LEMMA EarsType ==
    ASSUME NEW d \in Device, NEW n \in Line, NEW on \in BOOLEAN
    PROVE  /\ [d EXCEPT !.line[n].rxEna = on] \in Device
           /\ [d EXCEPT !.line[n].rxEna = on].csr = d.csr
           /\ [d EXCEPT !.line[n].rxEna = on].line =
                 [d.line EXCEPT ![n] = [@ EXCEPT !.rxEna = on]]
<1>. DEFINE l == [d.line[n] EXCEPT !.rxEna = on]
            lines == [d.line EXCEPT ![n] = l]
<1>1. l \in LineState
    BY SMTT(40) DEF Device, LineState
<1>2. lines \in [Line -> LineState]
    BY <1>1 DEF Device
<1>3. [d EXCEPT !.line[n].rxEna = on] = [d EXCEPT !.line = lines]
    BY DEF Device
<1>. HIDE DEF lines
<1>4. [d EXCEPT !.line = lines] \in Device
    BY <1>2 DEF Device
<1>5. /\ [d EXCEPT !.line = lines].csr = d.csr
      /\ [d EXCEPT !.line = lines].line = lines
    BY DEF Device
<1>. QED  BY <1>3, <1>4, <1>5 DEF lines

LEMMA TypedKeeps ==
    ASSUME DeviceInv, NEW chr \in Char, dz11charRx(chr)
    PROVE  DeviceInv'
<1>1. CASE Listens(gDZ11, ConsoleLine)
    <2>1. CharRx(gDZ11, ConsoleLine, chr) \in Device
        BY CharRxType, DZ11Assumption DEF DeviceInv
    <2>2. Becomes(Recalc(CharRx(gDZ11, ConsoleLine, chr)))
        BY <1>1 DEF dz11charRx, Received
    <2>3. panic' \in BOOLEAN
        BY DEF dz11charRx, DeviceInv
    <2>. QED  BY <2>1, <2>2, <2>3, BecomesKeeps
<1>2. CASE ~ Listens(gDZ11, ConsoleLine)
    BY <1>2 DEF dz11charRx, DeviceInv, Cached, Level, Enabled
<1>. QED  BY <1>1, <1>2

LEMMA StepKeeps ==
    ASSUME DeviceInv, [Next]_vars
    PROVE  DeviceInv'
<1>. USE DEF DeviceInv
<1>1. CASE UNCHANGED vars
    BY <1>1 DEF vars, Cached, Level, Enabled
<1>2. ASSUME NEW chr \in Char, dz11charRx(chr)
      PROVE  DeviceInv'
    BY <1>2, TypedKeeps
<1>3. ASSUME NEW word \in CsrWords, WriteCSR(word)
      PROVE  DeviceInv'
    <2>1. (IF "CLR" \in word THEN Cleared ELSE [gDZ11 EXCEPT !.csr = word])
             \in Device
        BY DZ11Assumption, ClearedType DEF Device
    <2>. QED  BY <1>3, <2>1, BecomesKeeps DEF WriteCSR
<1>4. ASSUME NEW n \in Line \cup {NumUarts}, NEW on \in BOOLEAN,
             WriteLPR(n, on)
      PROVE  DeviceInv'
    <2>1. CASE n \in Line
        <3>1. [gDZ11 EXCEPT !.line[n].rxEna = on] \in Device
            BY <2>1, EarsType
        <3>. QED  BY <1>4, <2>1, <3>1, BecomesKeeps DEF WriteLPR
    <2>2. CASE n \notin Line
        BY <1>4, <2>2 DEF WriteLPR, Cached, Level, Enabled
    <2>. QED  BY <2>1, <2>2
<1>5. ASSUME NEW lines \in TcrWords, WriteTCR(lines)
      PROVE  DeviceInv'
    <2>1. [gDZ11 EXCEPT !.tcr = lines] \in Device
        BY DZ11Assumption DEF Device
    <2>. QED  BY <1>5, <2>1, BecomesKeeps DEF WriteTCR
<1>6. ASSUME NEW chr \in Char, WriteTDR(chr)
      PROVE  DeviceInv'
    <2>. DEFINE d == IF "MAINT" \in gDZ11.csr
                       THEN Received(gDZ11, gDZ11.txLine, chr) ELSE gDZ11
    <2>1. d \in Device
        BY ReceivedType DEF Device
    <2>2. [d EXCEPT !.trdy = FALSE] \in Device
        BY <2>1 DEF Device
    <2>3. Becomes(Recalc([d EXCEPT !.trdy = FALSE])) /\ panic' \in BOOLEAN
        BY <1>6 DEF WriteTDR
    <2>. QED  BY <2>2, <2>3, BecomesKeeps
<1>7. CASE ReadRBUF
    <2>. DEFINE n == Highest(Waiting(gDZ11))
    <2>1. CASE Enabled(gDZ11) /\ Waiting(gDZ11) # {}
        <3>1. n \in Waiting(gDZ11)
            BY <2>1, HighestIs DEF Waiting
        <3>2. Drop(gDZ11.line[n]) \in LineState
            BY <3>1, DropType DEF Waiting, Device
        <3>3. [gDZ11 EXCEPT !.line[n] = Drop(gDZ11.line[n])] \in Device
            BY <3>2 DEF Device
        <3>4. Becomes(Recalc([gDZ11 EXCEPT !.line[n] = Drop(gDZ11.line[n])]))
            BY <1>7, <2>1 DEF ReadRBUF
        <3>5. panic' \in BOOLEAN
            BY <1>7 DEF ReadRBUF
        <3>. HIDE DEF n
        <3>. QED  BY <3>3, <3>4, <3>5, BecomesKeeps
    <2>2. CASE ~ (Enabled(gDZ11) /\ Waiting(gDZ11) # {})
        <3>1. Becomes(Recalc(gDZ11)) /\ panic' \in BOOLEAN
            BY <1>7, <2>2 DEF ReadRBUF
        <3>. QED  BY <3>1, BecomesKeeps
    <2>. QED  BY <2>1, <2>2
<1>8. CASE ReadCSR
    <2>1. Becomes(Recalc(gDZ11)) /\ panic' \in BOOLEAN
        BY <1>8 DEF ReadCSR
    <2>. QED  BY <2>1, BecomesKeeps
<1>. QED  BY <1>1, <1>2, <1>3, <1>4, <1>5, <1>6, <1>7, <1>8 DEF Next

LEMMA InitKeeps == Init => DeviceInv
<1>. SUFFICES ASSUME Init PROVE DeviceInv
    OBVIOUS
<1>1. gDZ11 = [Cleared EXCEPT !.csr = {"MSE"}]
    BY DEF Init
<1>2. gDZ11 \in Device
    BY <1>1, ClearedType DEF Device, Bit
<1>3. /\ gDZ11.csr = {"MSE"} /\ gDZ11.tcr = {}
      /\ gDZ11.rdone = FALSE /\ gDZ11.sa = FALSE /\ gDZ11.trdy = FALSE
      /\ \A n \in Line : /\ gDZ11.line[n].rxBytesUsed = 0
                         /\ gDZ11.line[n].nBytes = 0
    BY <1>1 DEF Cleared
<1>4. Cached(gDZ11)
    BY <1>3, DZ11Assumption DEF Cached
<1>5. irq = Level(gDZ11)
    BY <1>3 DEF Init, Level
<1>. QED  BY <1>2, <1>4, <1>5 DEF Init, DeviceInv

(* The state of the device has its type, and the calculated bits and the   *)
(* interrupt agree with the lines, the control bits and the transmit lines *)
(* after every call (dz11PrvRecalc, dz11.c:85-135).                        *)
THEOREM DeviceIsSound == Spec => []DeviceInv
<1>1. DeviceInv /\ [Next]_vars => DeviceInv'
    BY StepKeeps
<1>. QED  BY <1>1, InitKeeps, PTL DEF Spec

(* The interrupt of the serial controller is up exactly when the lines     *)
(* give reason for it, whatever was called, for every number of lines and  *)
(* every alarm level.                                                      *)
THEOREM IrqIsFollowing == Spec => []IrqFollowsLines
<1>1. DeviceInv => IrqFollowsLines
    BY DEF DeviceInv, Cached, Level, IrqFollowsLines, Enabled
<1>. QED  BY <1>1, DeviceIsSound, PTL

(* A character sent while TRDY is up goes to a line that is enabled for    *)
(* transmission: TRDY and the line it names are those of the last recalc,  *)
(* and a recalc follows every write to the transmit lines (dz11.c:113-119, *)
(* 148).                                                                   *)
THEOREM SendsWhereEnabled == Spec => SentWhereEnabled
<1>. DEFINE Where == (shown'.kind = "sent" /\ Enabled(gDZ11) /\ gDZ11.trdy) =>
                        shown'.line \in gDZ11.tcr
<1>1. ASSUME DeviceInv, Next
      PROVE  Where
    <2>1. ASSUME NEW chr \in Char, dz11charRx(chr)
          PROVE  Where
        BY <2>1 DEF dz11charRx
    <2>2. ASSUME NEW word \in CsrWords, WriteCSR(word)
          PROVE  Where
        BY <2>2 DEF WriteCSR, Nothing
    <2>3. ASSUME NEW n \in Line \cup {NumUarts}, NEW on \in BOOLEAN,
                 WriteLPR(n, on)
          PROVE  Where
        BY <2>3 DEF WriteLPR, Nothing
    <2>4. ASSUME NEW lines \in TcrWords, WriteTCR(lines)
          PROVE  Where
        BY <2>4 DEF WriteTCR, Nothing
    <2>5. ASSUME NEW chr \in Char, WriteTDR(chr),
                 Enabled(gDZ11), gDZ11.trdy
          PROVE  shown'.line \in gDZ11.tcr
        <3>1. shown'.line = gDZ11.txLine
            BY <2>5 DEF WriteTDR
        <3>2. gDZ11.tcr # {} /\ gDZ11.txLine = Highest(gDZ11.tcr)
            BY <1>1, <2>5 DEF DeviceInv, Cached
        <3>3. gDZ11.tcr \subseteq Line
            BY <1>1 DEF DeviceInv, Device
        <3>. QED  BY <3>1, <3>2, <3>3, HighestIs
    <2>6. CASE ReadRBUF
        BY <2>6 DEF ReadRBUF
    <2>7. CASE ReadCSR
        BY <2>7 DEF ReadCSR
    <2>. QED  BY <1>1, <2>1, <2>2, <2>3, <2>4, <2>5, <2>6, <2>7 DEF Next
<1>2. DeviceInv /\ [Next]_vars => [Where]_vars
    BY <1>1
<1>3. [][Where]_vars <=> SentWhereEnabled
    BY PTL DEF SentWhereEnabled
<1>. QED  BY <1>2, <1>3, DeviceIsSound, PTL DEF Spec

(* A character never lowers the level of the interrupt: what it adds to a  *)
(* line only gives reason for it, the saturated count included.            *)
LEMMA CharacterRaises ==
    ASSUME NEW d \in Device, Cached(d), Level(d), NEW n \in Line,
           NEW chr \in Char
    PROVE  Level(Recalc(CharRx(d, n, chr)))
<1>. DEFINE e == CharRx(d, n, chr)
            r == Recalc(e)
<1>1. /\ e \in Device
      /\ e.csr = d.csr /\ e.tcr = d.tcr
      /\ e.line = [d.line EXCEPT ![n] = After(@, chr)]
    BY CharRxType DEF Device
<1>2. d.line[n] \in LineState /\ d.line \in [Line -> LineState]
    BY DEF Device
<1>3. /\ After(d.line[n], chr).nBytes >= d.line[n].nBytes
      /\ After(d.line[n], chr).rxBytesUsed >= d.line[n].rxBytesUsed
      /\ After(d.line[n], chr) \in LineState
    BY <1>2, AfterType
<1>4. \A m \in Line : /\ e.line[m].nBytes >= d.line[m].nBytes
                      /\ e.line[m].rxBytesUsed >= d.line[m].rxBytesUsed
                      /\ {e.line[m].nBytes, d.line[m].nBytes,
                          e.line[m].rxBytesUsed, d.line[m].rxBytesUsed}
                            \subseteq Nat
    <2>. TAKE m \in Line
    <2>1. d.line[m] \in LineState /\ e.line[m] \in LineState
        BY <1>1, <1>2, <1>3
    <2>2. {e.line[m].nBytes, d.line[m].nBytes,
           e.line[m].rxBytesUsed, d.line[m].rxBytesUsed} \subseteq Nat
        BY <2>1, DZ11Assumption, SMTT(40) DEF LineState
    <2>3. CASE m = n
        BY <1>1, <1>2, <1>3, <2>2, <2>3
    <2>4. CASE m # n
        <3>1. e.line[m] = d.line[m]
            BY <1>1, <1>2, <2>4
        <3>. QED  BY <2>2, <3>1
    <2>. QED  BY <2>3, <2>4
<1>5. r.csr = d.csr /\ r.tcr = d.tcr /\ r.line = e.line /\ Cached(r)
    BY <1>1, RecalcKeeps
<1>. HIDE DEF e, r
<1>6. Enabled(d) /\ Enabled(r)
    BY <1>5 DEF Level, Enabled
<1>7. d.sa => r.sa
    <2>1. ASSUME d.sa PROVE r.sa
        <3>1. PICK m \in Line : d.line[m].nBytes >= AlarmCount
            BY <1>6, <2>1 DEF Cached
        <3>2. e.line[m].nBytes >= AlarmCount
            BY <1>4, <3>1, DZ11Assumption
        <3>. QED  BY <1>5, <1>6, <3>2 DEF Cached
    <2>. QED  BY <2>1
<1>8. d.rdone => r.rdone
    <2>1. ASSUME d.rdone PROVE r.rdone
        <3>1. PICK m \in Line : d.line[m].rxBytesUsed > 0
            BY <1>6, <2>1 DEF Cached
        <3>2. e.line[m].rxBytesUsed > 0
            BY <1>4, <3>1
        <3>. QED  BY <1>5, <1>6, <3>2 DEF Cached
    <2>. QED  BY <2>1
<1>9. d.trdy => r.trdy
    BY <1>5, <1>6 DEF Cached
<1>10. Level(r)
    BY <1>5, <1>6, <1>7, <1>8, <1>9 DEF Level
<1>. QED  BY <1>10 DEF r, e

(* A character that arrives never lowers the interrupt (dz11.c:220, "do    *)
(* not overflow").                                                         *)
THEOREM TypingRaises == Spec => TypingNeverLowers
<1>. DEFINE Raises == (shown'.kind = "typed" /\ irq) => irq'
<1>1. ASSUME DeviceInv, Next
      PROVE  Raises
    <2>1. ASSUME NEW chr \in Char, dz11charRx(chr), irq
          PROVE  irq'
        <3>1. CASE Listens(gDZ11, ConsoleLine)
            <4>1. irq' = Level(Recalc(CharRx(gDZ11, ConsoleLine, chr)))
                BY <2>1, <3>1 DEF dz11charRx, Received, Becomes
            <4>2. Level(gDZ11)
                BY <1>1, <2>1 DEF DeviceInv
            <4>3. Level(Recalc(CharRx(gDZ11, ConsoleLine, chr)))
                BY <1>1, <4>2, CharacterRaises, DZ11Assumption DEF DeviceInv
            <4>. QED  BY <4>1, <4>3
        <3>2. CASE ~ Listens(gDZ11, ConsoleLine)
            BY <2>1, <3>2 DEF dz11charRx
        <3>. QED  BY <3>1, <3>2
    <2>2. ASSUME NEW word \in CsrWords, WriteCSR(word)
          PROVE  Raises
        BY <2>2 DEF WriteCSR, Nothing
    <2>3. ASSUME NEW n \in Line \cup {NumUarts}, NEW on \in BOOLEAN,
                 WriteLPR(n, on)
          PROVE  Raises
        BY <2>3 DEF WriteLPR, Nothing
    <2>4. ASSUME NEW lines \in TcrWords, WriteTCR(lines)
          PROVE  Raises
        BY <2>4 DEF WriteTCR, Nothing
    <2>5. ASSUME NEW chr \in Char, WriteTDR(chr)
          PROVE  Raises
        BY <2>5 DEF WriteTDR
    <2>6. CASE ReadRBUF
        BY <2>6 DEF ReadRBUF
    <2>7. CASE ReadCSR
        BY <2>7 DEF ReadCSR
    <2>. QED  BY <1>1, <2>1, <2>2, <2>3, <2>4, <2>5, <2>6, <2>7 DEF Next
<1>2. DeviceInv /\ [Next]_vars => [Raises]_vars
    BY <1>1
<1>3. [][Raises]_vars <=> TypingNeverLowers
    BY PTL DEF TypingNeverLowers
<1>. QED  BY <1>2, <1>3, DeviceIsSound, PTL DEF Spec
-----------------------------------------------------------------------------
(* An index that runs at most once past the end of a ring buffer. *)
LEMMA Around ==
    ASSUME NEW i \in 0 .. 2 * BufSize - 1
    PROVE  i % BufSize = IF i < BufSize THEN i ELSE i - BufSize
BY DZ11Assumption

(* What the ring buffer of a line holds is a sequence. *)
LEMMA QueueSeq ==
    ASSUME NEW l \in LineState
    PROVE  /\ Queue(l) \in Seq(Char)
           /\ Len(Queue(l)) = l.rxBytesUsed
           /\ \A i \in 1 .. l.rxBytesUsed :
                 Queue(l)[i] = l.buf[(l.rxReadPtr + i - 1) % BufSize]
<1>1. \A i \in 1 .. l.rxBytesUsed :
         (l.rxReadPtr + i - 1) % BufSize \in 0 .. BufSize - 1
    BY DZ11Assumption DEF LineState
<1>2. \A i \in 1 .. l.rxBytesUsed :
         l.buf[(l.rxReadPtr + i - 1) % BufSize] \in Char
    BY <1>1 DEF LineState
<1>3. l.rxBytesUsed \in Nat
    BY DZ11Assumption DEF LineState
<1>4. Queue(l) \in [1 .. l.rxBytesUsed -> Char]
    BY <1>2 DEF Queue
<1>5. Queue(l) \in Seq(Char)
    BY <1>3, <1>4
<1>. QED  BY <1>3, <1>4, <1>5 DEF Queue

(* Indices less than the size of the buffer apart name different slots. *)
LEMMA SlotOf ==
    ASSUME NEW r \in 0 .. BufSize - 1, NEW i \in 0 .. BufSize,
           NEW j \in 0 .. BufSize, j < i, i < j + BufSize
    PROVE  (r + i) % BufSize # (r + j) % BufSize
<1>1. /\ r + i \in 0 .. 2 * BufSize - 1
      /\ r + j \in 0 .. 2 * BufSize - 1
      /\ BufSize \in Nat
    BY DZ11Assumption
<1>2. /\ (r + i) % BufSize = IF r + i < BufSize THEN r + i ELSE r + i - BufSize
      /\ (r + j) % BufSize = IF r + j < BufSize THEN r + j ELSE r + j - BufSize
    BY <1>1, Around, SMTT(40)
<1>. QED  BY <1>1, <1>2

(* dz11charRx appends: the slot it writes holds none of the characters     *)
(* that wait (dz11.c:216-219).                                             *)
LEMMA PutAppends ==
    ASSUME NEW l \in LineState, NEW chr \in Char, l.rxBytesUsed < BufSize
    PROVE  Queue(Put(l, chr)) = Append(Queue(l), chr)
<1>. DEFINE p == Put(l, chr)
            u == l.rxBytesUsed
            r == l.rxReadPtr
            q == Queue(l)
            a == Append(q, chr)
<1>1. /\ p \in LineState /\ p.rxBytesUsed = u + 1 /\ p.rxReadPtr = r
      /\ p.buf = [l.buf EXCEPT ![(r + u) % BufSize] = chr]
    BY PutType
<1>2. u \in Nat /\ u \in 0 .. BufSize - 1 /\ r \in 0 .. BufSize - 1
      /\ BufSize \in Nat /\ l.buf \in [0 .. BufSize - 1 -> Char]
    BY DZ11Assumption DEF LineState
<1>3. /\ Queue(p) \in Seq(Char)
      /\ Len(Queue(p)) = u + 1
      /\ \A i \in 1 .. u + 1 : Queue(p)[i] = p.buf[(r + i - 1) % BufSize]
    BY <1>1, QueueSeq
<1>4. /\ q \in Seq(Char)
      /\ Len(q) = u
      /\ \A i \in 1 .. u : q[i] = l.buf[(r + i - 1) % BufSize]
    BY QueueSeq
<1>5. /\ a \in Seq(Char)
      /\ Len(a) = u + 1
      /\ \A i \in 1 .. u : a[i] = q[i]
      /\ a[u + 1] = chr
    BY <1>2, <1>4, AppendProperties
<1>. HIDE DEF p, u, r, q, a
<1>6. (r + u) % BufSize \in 0 .. BufSize - 1
    BY <1>2
<1>7. ASSUME NEW i \in 1 .. u + 1
      PROVE  Queue(p)[i] = a[i]
    <2>1. CASE i = u + 1
        <3>1. r + i - 1 = r + u
            BY <1>2, <2>1
        <3>2. Queue(p)[i] = p.buf[(r + u) % BufSize]
            BY <1>3, <3>1
        <3>. QED  BY <1>1, <1>2, <1>5, <1>6, <2>1, <3>2
    <2>2. CASE i # u + 1
        <3>1. /\ i \in 1 .. u /\ i - 1 \in 0 .. BufSize /\ u \in 0 .. BufSize
              /\ i - 1 < u /\ u < i - 1 + BufSize /\ r + (i - 1) = r + i - 1
            BY <1>2, <2>2
        <3>2. (r + i - 1) % BufSize # (r + u) % BufSize
            BY <1>2, <3>1, SlotOf
        <3>3. (r + i - 1) % BufSize \in 0 .. BufSize - 1
            BY <1>2, <3>1
        <3>4. p.buf[(r + i - 1) % BufSize] = l.buf[(r + i - 1) % BufSize]
            BY <1>1, <1>2, <3>2, <3>3
        <3>. QED  BY <1>3, <1>4, <1>5, <3>1, <3>4
    <2>. QED  BY <2>1, <2>2
<1>8. Queue(p) = a
    BY <1>3, <1>5, <1>7, SeqEqual
<1>. QED  BY <1>8 DEF p, a, q

(* dz11prvRx takes the first: the read pointer goes on to the second, and  *)
(* around the end of the buffer (dz11.c:176-187).                          *)
LEMMA DropTails ==
    ASSUME NEW l \in LineState, l.rxBytesUsed > 0
    PROVE  /\ Queue(l) # <<>>
           /\ Head(Queue(l)) = l.buf[l.rxReadPtr]
           /\ Queue(Drop(l)) = Tail(Queue(l))
<1>. DEFINE p == Drop(l)
            u == l.rxBytesUsed
            r == l.rxReadPtr
            q == Queue(l)
<1>1. /\ p \in LineState /\ p.rxBytesUsed = u - 1 /\ p.buf = l.buf
      /\ p.rxReadPtr = IF r + 1 = BufSize THEN 0 ELSE r + 1
    BY DropType DEF Drop, LineState
<1>2. u \in Nat \ {0} /\ u \in 1 .. BufSize /\ r \in 0 .. BufSize - 1
      /\ BufSize \in Nat
    BY DZ11Assumption DEF LineState
<1>3. /\ Queue(p) \in Seq(Char)
      /\ Len(Queue(p)) = u - 1
      /\ \A i \in 1 .. u - 1 :
            Queue(p)[i] = p.buf[(p.rxReadPtr + i - 1) % BufSize]
    BY <1>1, QueueSeq
<1>4. /\ q \in Seq(Char)
      /\ Len(q) = u
      /\ \A i \in 1 .. u : q[i] = l.buf[(r + i - 1) % BufSize]
    BY QueueSeq
<1>. HIDE DEF p, u, r, q
<1>5. q # <<>>
    BY <1>2, <1>4, EmptySeq
<1>6. /\ Tail(q) \in Seq(Char)
      /\ Len(Tail(q)) = u - 1
      /\ \A i \in 1 .. u - 1 : Tail(q)[i] = q[i + 1]
    BY <1>4, <1>5, HeadTailProperties
<1>7. Head(q) = l.buf[r]
    <2>1. Head(q) = q[1]
        BY <1>4, <1>5
    <2>2. (r + 1 - 1) % BufSize = r
        BY <1>2
    <2>. QED  BY <1>2, <1>4, <2>1, <2>2
<1>8. ASSUME NEW i \in 1 .. u - 1
      PROVE  Queue(p)[i] = Tail(q)[i]
    <2>1. /\ i + 1 \in 1 .. u /\ r + (i + 1) - 1 = r + i
          /\ r + i \in 0 .. 2 * BufSize - 1
          /\ i - 1 \in 0 .. 2 * BufSize - 1
        BY <1>2
    <2>2. (p.rxReadPtr + i - 1) % BufSize = (r + i) % BufSize
        <3>1. CASE r + 1 = BufSize
            <4>1. p.rxReadPtr + i - 1 = i - 1 /\ ~ (r + i < BufSize)
                  /\ r + i - BufSize = i - 1 /\ i - 1 < BufSize
                BY <1>1, <1>2, <3>1
            <4>2. (i - 1) % BufSize = i - 1
                BY <2>1, <4>1, Around
            <4>3. (r + i) % BufSize = r + i - BufSize
                BY <1>2, <2>1, <4>1, Around
            <4>. QED  BY <4>1, <4>2, <4>3
        <3>2. CASE r + 1 # BufSize
            <4>1. p.rxReadPtr + i - 1 = r + i
                BY <1>1, <1>2, <3>2
            <4>. QED  BY <4>1
        <3>. QED  BY <3>1, <3>2
    <2>3. q[i + 1] = l.buf[(r + i) % BufSize]
        BY <1>4, <2>1
    <2>. QED  BY <1>1, <1>3, <1>6, <2>2, <2>3
<1>9. Queue(p) = Tail(q)
    <2>1. \A i \in 1 .. Len(Queue(p)) : Queue(p)[i] = Tail(q)[i]
        BY <1>3, <1>8
    <2>. QED  BY <1>3, <1>6, <2>1, SeqEqual
<1>. QED  BY <1>5, <1>7, <1>9 DEF p, q, r

(* What a character does to the queue of its line, and to the mark of a    *)
(* loss.                                                                   *)
LEMMA AfterShows ==
    ASSUME NEW l \in LineState, NEW chr \in Char
    PROVE  /\ l.rxBytesUsed < BufSize =>
                  /\ Queue(After(l, chr)) = Append(Queue(l), chr)
                  /\ After(l, chr).rxOvr = l.rxOvr
           /\ ~ (l.rxBytesUsed < BufSize) =>
                  /\ Queue(After(l, chr)) = Queue(l)
                  /\ After(l, chr).rxOvr = TRUE
<1>1. l.rxBytesUsed \in 0 .. BufSize /\ BufSize \in Nat
    BY DZ11Assumption DEF LineState
<1>2. ASSUME NEW m \in LineState, NEW c
      PROVE  /\ Queue([m EXCEPT !.nBytes = c]) = Queue(m)
             /\ [m EXCEPT !.nBytes = c].rxOvr = m.rxOvr
    BY DEF Queue, LineState
<1>3. CASE l.rxBytesUsed < BufSize
    <2>1. Put(l, chr) \in LineState /\ Put(l, chr).rxOvr = l.rxOvr
        BY <1>3, PutType
    <2>2. After(l, chr) = [Put(l, chr) EXCEPT !.nBytes = Count(l.nBytes)]
        BY <1>1, <1>3 DEF After
    <2>3. Queue(After(l, chr)) = Queue(Put(l, chr))
          /\ After(l, chr).rxOvr = l.rxOvr
        BY <1>2, <2>1, <2>2
    <2>. QED  BY <1>3, <2>3, PutAppends
<1>4. CASE ~ (l.rxBytesUsed < BufSize)
    <2>. DEFINE m == [l EXCEPT !.rxOvr = TRUE]
    <2>1. m \in LineState /\ m.rxOvr = TRUE /\ Queue(m) = Queue(l)
        BY DEF LineState, Queue
    <2>2. After(l, chr) = [m EXCEPT !.nBytes = Count(l.nBytes)]
        <3>1. l.rxBytesUsed >= BufSize
            BY <1>1, <1>4
        <3>. QED  BY <3>1 DEF After
    <2>. HIDE DEF m
    <2>3. Queue(After(l, chr)) = Queue(l) /\ After(l, chr).rxOvr = TRUE
        BY <1>2, <2>1, <2>2
    <2>. QED  BY <1>4, <2>3
<1>. QED  BY <1>3, <1>4
-----------------------------------------------------------------------------
(* The device as the abstract controller sees it. *)
Queues(d) == [n \in Line |-> Queue(d.line[n])]
Missed(d) == {n \in Line : d.line[n].rxOvr}
Ears(d) == {n \in Line : d.line[n].rxEna}
Loop(d) == "MAINT" \in d.csr
Outside(s) == IF s.kind = "csr" THEN Nothing ELSE s

(* Two devices with the same lines and control bits look alike. *)
LEMMA LooksAlike ==
    ASSUME NEW d, NEW e, e.line = d.line, e.csr = d.csr
    PROVE  /\ Queues(e) = Queues(d) /\ Missed(e) = Missed(d)
           /\ Ears(e) = Ears(d) /\ Loop(e) = Loop(d)
           /\ Enabled(e) = Enabled(d)
BY DEF Queues, Missed, Ears, Loop, Enabled

(* A character arrives: exactly what the abstract controller does with it. *)
LEMMA ArriveMaps ==
    ASSUME gDZ11 \in Device, NEW n \in Line, NEW chr \in Char,
           gDZ11'.line = IF Listens(gDZ11, n)
                           THEN [gDZ11.line EXCEPT ![n] = After(@, chr)]
                           ELSE gDZ11.line
    PROVE  S!Arrive(n, chr) /\ Ears(gDZ11)' = Ears(gDZ11)
<1>. DEFINE l == gDZ11.line[n]
            q == Queues(gDZ11)
            m == Missed(gDZ11)
<1>1. l \in LineState /\ gDZ11.line \in [Line -> LineState]
    BY DEF Device
<1>2. Len(Queue(l)) = l.rxBytesUsed /\ q[n] = Queue(l)
    BY <1>1, QueueSeq DEF Queues
<1>3. CASE ~ Listens(gDZ11, n)
    <2>1. gDZ11'.line = gDZ11.line
        BY <1>3
    <2>2. Queues(gDZ11)' = q /\ Missed(gDZ11)' = m /\ Ears(gDZ11)' = Ears(gDZ11)
        BY <2>1 DEF Queues, Missed, Ears
    <2>. QED  BY <1>3, <2>2
              DEF S!Arrive, Queues, Missed, Listens, Enabled, Ears
<1>4. CASE Listens(gDZ11, n)
    <2>1. gDZ11'.line = [gDZ11.line EXCEPT ![n] = After(l, chr)]
        BY <1>4
    <2>2. /\ gDZ11'.line[n] = After(l, chr)
          /\ \A k \in Line : k # n => gDZ11'.line[k] = gDZ11.line[k]
        BY <1>1, <2>1
    <2>3. After(l, chr).rxEna = l.rxEna
        BY <1>1, AfterType
    <2>4. Ears(gDZ11)' = Ears(gDZ11)
        BY <2>2, <2>3 DEF Ears
    <2>5. CASE l.rxBytesUsed < BufSize
        <3>1. /\ Queue(After(l, chr)) = Append(q[n], chr)
              /\ After(l, chr).rxOvr = l.rxOvr
            <4>1. /\ Queue(After(l, chr)) = Append(Queue(l), chr)
                  /\ After(l, chr).rxOvr = l.rxOvr
                BY <1>1, <2>5, AfterShows
            <4>. HIDE DEF q, l
            <4>. QED  BY <1>2, <4>1, Zenon
        <3>2. Queues(gDZ11)' = [q EXCEPT ![n] = Append(q[n], chr)]
            BY <2>2, <3>1 DEF Queues
        <3>3. Missed(gDZ11)' = m
            BY <2>2, <3>1 DEF Missed
        <3>4. Len(q[n]) < BufSize
            BY <1>2, <2>5
        <3>. QED  BY <1>4, <2>4, <3>2, <3>3, <3>4
                  DEF S!Arrive, Queues, Missed, Listens, Enabled, Ears
    <2>6. CASE ~ (l.rxBytesUsed < BufSize)
        <3>1. /\ Queue(After(l, chr)) = q[n]
              /\ After(l, chr).rxOvr = TRUE
            BY <1>1, <1>2, <2>6, AfterShows
        <3>2. Queues(gDZ11)' = q
            BY <1>2, <2>2, <3>1 DEF Queues
        <3>3. Missed(gDZ11)' = m \cup {n}
            BY <2>2, <3>1 DEF Missed
        <3>4. ~ (Len(q[n]) < BufSize)
            BY <1>2, <2>6
        <3>. QED  BY <1>4, <2>4, <3>2, <3>3, <3>4
                  DEF S!Arrive, Queues, Missed, Listens, Enabled, Ears
    <2>. QED  BY <2>5, <2>6
<1>. QED  BY <1>3, <1>4

LEMMA WaitsWhereQueued ==
    ASSUME NEW l \in LineState
    PROVE  l.rxBytesUsed > 0 <=> Queue(l) # <<>>
<1>1. /\ Queue(l) \in Seq(Char) /\ Len(Queue(l)) = l.rxBytesUsed
      /\ l.rxBytesUsed \in Nat
    BY QueueSeq, DZ11Assumption DEF LineState
<1>2. Queue(l) = <<>> => Len(Queue(l)) = 0
    OBVIOUS
<1>3. Queue(l) # <<>> => Len(Queue(l)) > 0
    BY <1>1, EmptySeq
<1>. QED  BY <1>1, <1>2, <1>3

(* A call that leaves the queues and the marks alone configures.  *)
LEMMA ConfigureMaps ==
    ASSUME Queues(gDZ11)' = Queues(gDZ11), Missed(gDZ11)' = Missed(gDZ11),
           Outside(shown') = Nothing
    PROVE  S!Configure
<1>1. Ears(gDZ11)' \in SUBSET Line
    BY DEF Ears
<1>2. Enabled(gDZ11)' \in BOOLEAN /\ Loop(gDZ11)' \in BOOLEAN
    BY DEF Enabled, Loop
<1>. QED  BY <1>1, <1>2 DEF S!Configure, Queues, Missed, Ears, Loop, Outside,
                            S!Nothing, Nothing

LEMMA TypeMaps ==
    ASSUME DeviceInv, NEW chr \in Char, dz11charRx(chr)
    PROVE  S!Type(ConsoleLine, chr)
<1>1. gDZ11 \in Device /\ ConsoleLine \in Line
    BY DZ11Assumption DEF DeviceInv
<1>2. /\ gDZ11'.line = IF Listens(gDZ11, ConsoleLine)
                        THEN [gDZ11.line EXCEPT ![ConsoleLine] = After(@, chr)]
                        ELSE gDZ11.line
      /\ gDZ11'.csr = gDZ11.csr
    <2>1. CASE Listens(gDZ11, ConsoleLine)
        <3>1. gDZ11' = Received(gDZ11, ConsoleLine, chr)
            BY <2>1 DEF dz11charRx, Becomes
        <3>. QED  BY <1>1, <2>1, <3>1, ReceivedType
    <2>2. CASE ~ Listens(gDZ11, ConsoleLine)
        BY <2>2 DEF dz11charRx
    <2>. QED  BY <2>1, <2>2
<1>3. S!Arrive(ConsoleLine, chr) /\ Ears(gDZ11)' = Ears(gDZ11)
    BY <1>1, <1>2, ArriveMaps
<1>4. Enabled(gDZ11)' = Enabled(gDZ11) /\ Loop(gDZ11)' = Loop(gDZ11)
    BY <1>2 DEF Enabled, Loop
<1>5. shown' = [kind |-> "typed", line |-> ConsoleLine, chr |-> chr]
      /\ shown'.kind # "csr"
    BY DEF dz11charRx
<1>. QED  BY <1>3, <1>4, <1>5 DEF S!Type, Ears, Loop

LEMMA SendMaps ==
    ASSUME DeviceInv, NEW chr \in Char, WriteTDR(chr)
    PROVE  \E n \in Line : S!Send(n, chr)
<1>. PICK n \in Line : n = gDZ11.txLine
    BY DEF DeviceInv, Device
<1>. DEFINE d == IF Loop(gDZ11) THEN Received(gDZ11, n, chr) ELSE gDZ11
<1>1. gDZ11 \in Device /\ n \in Line
    BY DEF DeviceInv, Device
<1>2. /\ d \in Device
      /\ d.csr = gDZ11.csr
      /\ d.line = IF Loop(gDZ11) /\ Listens(gDZ11, n)
                    THEN [gDZ11.line EXCEPT ![n] = After(@, chr)]
                    ELSE gDZ11.line
    BY <1>1, ReceivedType
<1>3. gDZ11' = Recalc([d EXCEPT !.trdy = FALSE])
      /\ shown' = [kind |-> "sent", line |-> n, chr |-> chr]
    BY DEF WriteTDR, Becomes, Loop
<1>. HIDE DEF d
<1>4. /\ [d EXCEPT !.trdy = FALSE] \in Device
      /\ [d EXCEPT !.trdy = FALSE].line = d.line
      /\ [d EXCEPT !.trdy = FALSE].csr = d.csr
    BY <1>2 DEF Device
<1>5. gDZ11'.line = d.line /\ gDZ11'.csr = gDZ11.csr
    BY <1>2, <1>3, <1>4, RecalcKeeps
<1>6. Enabled(gDZ11)' = Enabled(gDZ11) /\ Loop(gDZ11)' = Loop(gDZ11)
    BY <1>5 DEF Enabled, Loop
<1>7. shown'.kind # "csr"
    BY <1>3
<1>8. CASE Loop(gDZ11)
    <2>1. S!Arrive(n, chr) /\ Ears(gDZ11)' = Ears(gDZ11)
        BY <1>1, <1>2, <1>5, <1>8, ArriveMaps
    <2>. QED  BY <1>1, <1>3, <1>6, <1>7, <1>8, <2>1 DEF S!Send, Ears, Loop
<1>9. CASE ~ Loop(gDZ11)
    <2>1. gDZ11'.line = gDZ11.line
        BY <1>2, <1>5, <1>9
    <2>2. /\ Queues(gDZ11)' = Queues(gDZ11) /\ Missed(gDZ11)' = Missed(gDZ11)
          /\ Ears(gDZ11)' = Ears(gDZ11)
        BY <2>1 DEF Queues, Missed, Ears
    <2>. QED  BY <1>1, <1>3, <1>6, <1>7, <1>9, <2>2
              DEF S!Send, Queues, Missed, Ears, Loop
<1>. QED  BY <1>8, <1>9

LEMMA TakeMaps ==
    ASSUME DeviceInv, ReadRBUF
    PROVE  (\E n \in Line : S!Take(n)) \/ S!TakeNone
<1>. DEFINE top == Highest(Waiting(gDZ11))
<1>1. gDZ11 \in Device /\ gDZ11.line \in [Line -> LineState]
    BY DEF DeviceInv, Device
<1>2. \A m \in Line : Queues(gDZ11)[m] = Queue(gDZ11.line[m])
    BY DEF Queues
<1>3. \A m \in Line : m \in Waiting(gDZ11) <=> Queues(gDZ11)[m] # <<>>
    BY <1>1, <1>2, WaitsWhereQueued DEF Waiting
<1>4. CASE Enabled(gDZ11) /\ Waiting(gDZ11) # {}
    <2>. PICK n \in Line : n = top
        BY <1>4, HighestIs DEF Waiting
    <2>. DEFINE l == gDZ11.line[n]
    <2>1. n \in Waiting(gDZ11) /\ \A m \in Waiting(gDZ11) : m <= n
        BY <1>4, HighestIs DEF Waiting
    <2>2. n \in Line /\ l \in LineState /\ l.rxBytesUsed > 0
        BY <1>1, <2>1 DEF Waiting
    <2>3. /\ Head(Queue(l)) = l.buf[l.rxReadPtr]
          /\ Queue(Drop(l)) = Tail(Queue(l))
          /\ Drop(l) \in LineState
        BY <2>2, DropTails, DropType
    <2>4. Drop(l).rxOvr = FALSE /\ Drop(l).rxEna = l.rxEna
        BY <2>2 DEF Drop, LineState
    <2>. DEFINE e == [gDZ11 EXCEPT !.line[n] = Drop(l)]
    <2>5. /\ shown' = [kind |-> "rbuf", line |-> n, ovr |-> l.rxOvr,
                       chr |-> l.buf[l.rxReadPtr]]
          /\ gDZ11' = Recalc(e)
        BY <1>4 DEF ReadRBUF, Becomes
    <2>. HIDE DEF top
    <2>6. /\ e \in Device /\ e.csr = gDZ11.csr
          /\ e.line = [gDZ11.line EXCEPT ![n] = Drop(l)]
        BY <1>1, <2>2, <2>3 DEF Device
    <2>7. gDZ11'.csr = gDZ11.csr /\ gDZ11'.line = [gDZ11.line EXCEPT ![n] = Drop(l)]
        BY <2>5, <2>6, RecalcKeeps
    <2>8. /\ gDZ11'.line[n] = Drop(l)
          /\ \A m \in Line : m # n => gDZ11'.line[m] = gDZ11.line[m]
        BY <1>1, <2>2, <2>7
    <2>9. Queues(gDZ11)' = [Queues(gDZ11) EXCEPT ![n] = Tail(@)]
        <3>1. ASSUME NEW m \in Line
              PROVE  Queue(gDZ11'.line[m]) =
                        [Queues(gDZ11) EXCEPT ![n] = Tail(@)][m]
            <4>1. CASE m = n
                <5>1. Queue(gDZ11'.line[m]) = Tail(Queue(l))
                    BY <2>3, <2>8, <4>1
                <5>2. [Queues(gDZ11) EXCEPT ![n] = Tail(@)][m] = Tail(Queue(l))
                    BY <1>2, <2>2, <4>1 DEF Queues
                <5>. QED  BY <5>1, <5>2
            <4>2. CASE m # n
                BY <1>2, <2>8, <4>2 DEF Queues
            <4>. QED  BY <4>1, <4>2
        <3>. QED  BY <3>1 DEF Queues
    <2>10. Missed(gDZ11)' = Missed(gDZ11) \ {n}
        BY <2>4, <2>8 DEF Missed
    <2>11. Ears(gDZ11)' = Ears(gDZ11)
        BY <2>4, <2>8 DEF Ears
    <2>12. Enabled(gDZ11)' = Enabled(gDZ11) /\ Loop(gDZ11)' = Loop(gDZ11)
        BY <2>7 DEF Enabled, Loop
    <2>13. /\ Queues(gDZ11)[n] # <<>>
           /\ \A m \in Line : m > n => Queues(gDZ11)[m] = <<>>
        <3>1. n \in Int /\ \A m \in Line : m \in Int
            BY <2>2 DEF Line
        <3>. QED  BY <1>3, <2>1, <2>2, <3>1
    <2>14. /\ l.rxOvr = (n \in Missed(gDZ11))
           /\ l.buf[l.rxReadPtr] = Head(Queues(gDZ11)[n])
        <3>1. l.rxOvr \in BOOLEAN
            BY <2>2 DEF LineState
        <3>. QED  BY <1>2, <2>2, <2>3, <3>1 DEF Missed
    <2>15. shown' = [kind |-> "rbuf", line |-> n, ovr |-> n \in Missed(gDZ11),
                     chr |-> Head(Queues(gDZ11)[n])]
           /\ shown'.kind # "csr"
        BY <2>5, <2>14
    <2>16. S!Take(n)
        BY <1>4, <2>9, <2>10, <2>11, <2>12, <2>13, <2>15
           DEF S!Take, Queues, Missed, Ears, Loop
    <2>. QED  BY <2>16
<1>5. CASE ~ (Enabled(gDZ11) /\ Waiting(gDZ11) # {})
    <2>1. shown' = [kind |-> "empty"] /\ gDZ11' = Recalc(gDZ11)
          /\ shown'.kind # "csr"
        BY <1>5 DEF ReadRBUF, Becomes
    <2>2. gDZ11'.line = gDZ11.line /\ gDZ11'.csr = gDZ11.csr
        BY <1>1, <2>1, RecalcKeeps
    <2>3. /\ Queues(gDZ11)' = Queues(gDZ11) /\ Missed(gDZ11)' = Missed(gDZ11)
          /\ Ears(gDZ11)' = Ears(gDZ11) /\ Loop(gDZ11)' = Loop(gDZ11)
          /\ Enabled(gDZ11)' = Enabled(gDZ11)
        BY <2>2 DEF Queues, Missed, Ears, Loop, Enabled
    <2>4. Enabled(gDZ11) => \A m \in Line : Queues(gDZ11)[m] = <<>>
        BY <1>3, <1>5
    <2>5. S!TakeNone
        BY <2>1, <2>3, <2>4 DEF S!TakeNone, Queues, Missed, Ears, Loop
    <2>. QED  BY <2>5
<1>. QED  BY <1>4, <1>5

LEMMA ClearMaps ==
    ASSUME gDZ11' = Recalc(Cleared), shown' = Nothing
    PROVE  S!Clear
<1>1. gDZ11'.line = Cleared.line /\ gDZ11'.csr = Cleared.csr
    BY ClearedType, RecalcKeeps
<1>2. \A n \in Line : /\ gDZ11'.line[n].rxBytesUsed = 0
                      /\ gDZ11'.line[n].rxOvr = FALSE
                      /\ gDZ11'.line[n].rxEna = FALSE
    BY <1>1 DEF Cleared
<1>3. Queues(gDZ11)' = [n \in Line |-> <<>>]
    <2>1. ASSUME NEW n \in Line
          PROVE  Queue(gDZ11'.line[n]) = <<>>
        BY <1>2 DEF Queue
    <2>. QED  BY <2>1 DEF Queues
<1>4. Missed(gDZ11)' = {} /\ Ears(gDZ11)' = {}
    BY <1>2 DEF Missed, Ears
<1>5. ~ Enabled(gDZ11)' /\ ~ Loop(gDZ11)'
    BY <1>1 DEF Cleared, Enabled, Loop
<1>. QED  BY <1>3, <1>4, <1>5
          DEF S!Clear, Queues, Missed, Ears, Loop, Enabled, S!Nothing, Nothing

LEMMA StepMaps ==
    ASSUME DeviceInv, [Next]_vars
    PROVE  [S!Next]_(S!vars)
<1>. gDZ11 \in Device
    BY DEF DeviceInv
<1>1. CASE UNCHANGED vars
    BY <1>1 DEF vars, S!vars
<1>2. ASSUME NEW chr \in Char, dz11charRx(chr)
      PROVE  S!Next
    BY <1>2, TypeMaps, DZ11Assumption DEF S!Next
<1>3. ASSUME NEW word \in CsrWords, WriteCSR(word)
      PROVE  S!Next
    <2>1. shown' = Nothing /\ Outside(shown') = Nothing
        BY <1>3 DEF WriteCSR, Outside, Nothing
    <2>2. CASE "CLR" \in word
        <3>1. gDZ11' = Recalc(Cleared)
            BY <1>3, <2>2 DEF WriteCSR, Becomes
        <3>. QED  BY <2>1, <3>1, ClearMaps DEF S!Next
    <2>3. CASE "CLR" \notin word
        <3>. DEFINE e == [gDZ11 EXCEPT !.csr = word]
        <3>1. gDZ11' = Recalc(e)
            BY <1>3, <2>3 DEF WriteCSR, Becomes
        <3>2. e \in Device /\ e.line = gDZ11.line
            BY <2>3, DZ11Assumption DEF Device
        <3>. HIDE DEF e
        <3>3. gDZ11'.line = gDZ11.line
            BY <3>1, <3>2, RecalcKeeps
        <3>4. Queues(gDZ11)' = Queues(gDZ11) /\ Missed(gDZ11)' = Missed(gDZ11)
            BY <3>3 DEF Queues, Missed
        <3>. QED  BY <2>1, <3>4, ConfigureMaps DEF S!Next
    <2>. QED  BY <2>2, <2>3
<1>4. ASSUME NEW n \in Line \cup {NumUarts}, NEW on \in BOOLEAN,
             WriteLPR(n, on)
      PROVE  S!Next
    <2>1. Outside(shown') = Nothing
        BY <1>4 DEF WriteLPR, Outside, Nothing
    <2>2. Queues(gDZ11)' = Queues(gDZ11) /\ Missed(gDZ11)' = Missed(gDZ11)
        <3>1. CASE n \in Line
            <4>. DEFINE e == [gDZ11 EXCEPT !.line[n].rxEna = on]
            <4>1. gDZ11' = Recalc(e)
                BY <1>4, <3>1 DEF WriteLPR, Becomes
            <4>2. e \in Device
                  /\ e.line = [gDZ11.line EXCEPT ![n] = [@ EXCEPT !.rxEna = on]]
                BY <3>1, EarsType
            <4>. HIDE DEF e
            <4>3. gDZ11'.line =
                     [gDZ11.line EXCEPT ![n] = [@ EXCEPT !.rxEna = on]]
                BY <4>1, <4>2, RecalcKeeps
            <4>4. ASSUME NEW m \in Line
                  PROVE  /\ Queue(gDZ11'.line[m]) = Queue(gDZ11.line[m])
                         /\ gDZ11'.line[m].rxOvr = gDZ11.line[m].rxOvr
                <5>1. gDZ11.line[m] \in LineState
                    BY DEF Device
                <5>2. \/ gDZ11'.line[m] = gDZ11.line[m]
                      \/ gDZ11'.line[m] = [gDZ11.line[m] EXCEPT !.rxEna = on]
                    BY <4>3 DEF Device
                <5>. QED  BY <5>1, <5>2 DEF Queue, LineState
            <4>. QED  BY <4>4 DEF Queues, Missed
        <3>2. CASE n \notin Line
            BY <1>4, <3>2 DEF WriteLPR, Queues, Missed
        <3>. QED  BY <3>1, <3>2
    <2>. QED  BY <2>1, <2>2, ConfigureMaps DEF S!Next
<1>5. ASSUME NEW lines \in TcrWords, WriteTCR(lines)
      PROVE  S!Next
    <2>. DEFINE e == [gDZ11 EXCEPT !.tcr = lines]
    <2>1. gDZ11' = Recalc(e) /\ Outside(shown') = Nothing
        BY <1>5 DEF WriteTCR, Becomes, Outside, Nothing
    <2>2. e \in Device /\ e.line = gDZ11.line
        BY DZ11Assumption DEF Device
    <2>. HIDE DEF e
    <2>3. gDZ11'.line = gDZ11.line
        BY <2>1, <2>2, RecalcKeeps
    <2>4. Queues(gDZ11)' = Queues(gDZ11) /\ Missed(gDZ11)' = Missed(gDZ11)
        BY <2>3 DEF Queues, Missed
    <2>. QED  BY <2>1, <2>4, ConfigureMaps DEF S!Next
<1>6. ASSUME NEW chr \in Char, WriteTDR(chr)
      PROVE  S!Next
    BY <1>6, SendMaps DEF S!Next
<1>7. CASE ReadRBUF
    BY <1>7, TakeMaps DEF S!Next
<1>8. CASE ReadCSR
    <2>1. gDZ11' = Recalc(gDZ11) /\ Outside(shown') = Nothing
        BY <1>8 DEF ReadCSR, Becomes, Outside
    <2>2. gDZ11'.line = gDZ11.line
        BY <2>1, RecalcKeeps
    <2>3. Queues(gDZ11)' = Queues(gDZ11) /\ Missed(gDZ11)' = Missed(gDZ11)
        BY <2>2 DEF Queues, Missed
    <2>. QED  BY <2>1, <2>3, ConfigureMaps DEF S!Next
<1>. QED  BY <1>1, <1>2, <1>3, <1>4, <1>5, <1>6, <1>7, <1>8 DEF Next

LEMMA InitMaps == Init => S!Init
<1>. SUFFICES ASSUME Init PROVE S!Init
    OBVIOUS
<1>1. gDZ11.line = Cleared.line /\ gDZ11.csr = {"MSE"}
    BY DEF Init, Cleared
<1>2. \A n \in Line : /\ gDZ11.line[n].rxBytesUsed = 0
                      /\ gDZ11.line[n].rxOvr = FALSE
                      /\ gDZ11.line[n].rxEna = FALSE
    BY <1>1 DEF Cleared
<1>3. Queues(gDZ11) = [n \in Line |-> <<>>]
    <2>1. ASSUME NEW n \in Line
          PROVE  Queue(gDZ11.line[n]) = <<>>
        BY <1>2 DEF Queue
    <2>. QED  BY <2>1 DEF Queues
<1>4. Missed(gDZ11) = {} /\ Ears(gDZ11) = {} /\ ~ Loop(gDZ11)
    BY <1>1, <1>2 DEF Missed, Ears, Loop
<1>5. shown = Nothing /\ shown.kind # "csr"
    BY DEF Init, Nothing
<1>. QED  BY <1>3, <1>4, <1>5 DEF S!Init, Queues, Missed, Ears, Loop, Enabled,
                                  S!Nothing, Nothing

(* The ring buffers are queues, for every size: the characters of a line   *)
(* come out in the order they arrived across the wrap of the pointer, the  *)
(* highest line is served first, and a loss is reported with the next      *)
(* character of its line (dz11.c:167-187, 216-219).                        *)
THEOREM RingsAreQueues == Spec => ImplementsSilo
<1>1. DeviceInv /\ [Next]_vars => [S!Next]_(S!vars)
    BY StepMaps
<1>. QED  BY <1>1, InitMaps, DeviceIsSound, PTL
          DEF Spec, ImplementsSilo, S!Spec
-----------------------------------------------------------------------------
(***************************************************************************)
(* The count of characters with the calls taken apart, of module IrqRace.  *)
(*                                                                         *)
(* Only core 0 adds to the count and only core 1 takes from it, so what    *)
(* either has tested still holds when it loads and stores: a stale store   *)
(* of core 0 is never zero, a stale store of core 1 never fills the ring.  *)
(***************************************************************************)

(* Where a thread is on its way from the test of the count to its store. *)
Here == {"take", "take2", "drop", "drop2"}

(* The strengthening of UsedInBounds that is inductive. *)
Counts ==
    /\ used \in 0 .. RingSize
    /\ num \in [Thread -> 0 .. RingSize]
    /\ DOMAIN pc = Thread
    /\ pc["console"] \notin {"drop", "drop2"}
    /\ pc["timer"] \notin Here
    /\ pc["cpu"] \notin {"take", "take2"}
    /\ pc["console"] = "take" => used < RingSize
    /\ pc["console"] = "take2" => num["console"] < RingSize
    /\ pc["cpu"] = "drop" => used > 0
    /\ pc["cpu"] = "drop2" => num["cpu"] > 0

(* A step that leaves the counts alone and moves one thread elsewhere. *)
Aside(t) == /\ UNCHANGED <<used, num>>
            /\ pc' = [pc EXCEPT ![t] = pc'[t]]
            /\ pc'[t] \notin Here

USE IrqRaceAssumption
USE DEF Load, StoreFlags, Branch, Updates, Goto, Thread, mem,
        IrqRaceAssumption, Here, Counts, Aside

LEMMA AsideKeeps ==
    ASSUME Counts, NEW t \in Thread, Aside(t)
    PROVE  Counts'
  OBVIOUS

(* A store of a count in range. *)
LEMMA StoreInRange ==
    ASSUME NEW n \in 0 .. RingSize
    PROVE  n % (ByteMax + 1) = n
  OBVIOUS

LEMMA CountsInit ==
    ASSUME RaceInit
    PROVE  Counts
  BY DEF RaceInit

(* The updates of cpu.cause and the recalc, of any thread. *)
LEMMA RecalcAside ==
    ASSUME Counts, NEW t \in Thread,
           dz11PrvRecalc(t) \/ CauseLoad(t) \/ CauseStore(t)
    PROVE  Counts'
  <1>1. Aside(t)
    <2>1. CASE CauseLoad(t)
      BY <2>1 DEF CauseLoad
    <2>2. CASE CauseStore(t)
      BY <2>2 DEF CauseStore
    <2>3. CASE RecalcEnabled(t)
      BY <2>3 DEF RecalcEnabled
    <2>4. CASE RecalcClear(t)
      BY <2>4 DEF RecalcClear
    <2>5. CASE RecalcClear2(t)
      BY <2>5 DEF RecalcClear2
    <2>6. CASE RecalcLook(t)
      BY <2>6 DEF RecalcLook
    <2>7. CASE RecalcSet(t)
      BY <2>7 DEF RecalcSet
    <2>8. CASE RecalcSet2(t)
      BY <2>8 DEF RecalcSet2
    <2>9. CASE RecalcLevel(t)
      BY <2>9 DEF RecalcLevel
    <2> QED
      BY <2>1, <2>2, <2>3, <2>4, <2>5, <2>6, <2>7, <2>8, <2>9 DEF dz11PrvRecalc
  <1> QED
    BY <1>1, AsideKeeps

(* Core 0 stores a count only after it found room, and until then only     *)
(* core 1 has changed it, downwards.                                       *)
LEMMA ConsoleInBounds ==
    ASSUME Counts, CharReceived
    PROVE  Counts'
  <1>1. CASE CharArrives
    BY <1>1 DEF CharArrives
  <1>2. CASE CharRoom
    BY <1>2 DEF CharRoom
  <1>3. CASE CharTake
    BY <1>3 DEF CharTake, At, LoadCount
  <1>4. CASE CharTake2
    <2>1. num["console"] + 1 \in 1 .. RingSize
      BY <1>4 DEF CharTake2, StoreUsed, At
    <2>2. used' = num["console"] + 1
      BY <1>4, <2>1, StoreInRange DEF CharTake2, StoreUsed
    <2> QED
      BY <1>4, <2>1, <2>2 DEF CharTake2, StoreUsed
  <1> QED
    BY <1>1, <1>2, <1>3, <1>4 DEF CharReceived

LEMMA TimerAside ==
    ASSUME Counts, ds1287step
    PROVE  Counts'
  <1>1. Aside("timer")
    <2>1. CASE StepPF
      BY <2>1 DEF StepPF
    <2>2. CASE StepPF2
      BY <2>2 DEF StepPF2
    <2>3. CASE StepIRQF
      BY <2>3 DEF StepIRQF
    <2>4. CASE StepIRQF2
      BY <2>4 DEF StepIRQF2
    <2> QED
      BY <2>1, <2>2, <2>3, <2>4 DEF ds1287step
  <1> QED
    BY <1>1, AsideKeeps

(* Core 1 takes a character only after it found one, and until then only   *)
(* core 0 has changed the count, upwards.                                  *)
LEMMA RbufInBounds ==
    ASSUME Counts, BufferRead
    PROVE  Counts'
  <1>1. CASE Begin("rbuf", "rbuf")
    BY <1>1 DEF Begin
  <1>2. CASE RbufLook
    BY <1>2 DEF RbufLook
  <1>3. CASE RbufDrop
    BY <1>3 DEF RbufDrop, At, LoadCount
  <1>4. CASE RbufDrop2
    <2>1. num["cpu"] - 1 \in 0 .. RingSize - 1
      BY <1>4 DEF RbufDrop2, StoreUsed, At
    <2>2. used' = num["cpu"] - 1
      BY <1>4, <2>1, StoreInRange DEF RbufDrop2, StoreUsed
    <2> QED
      BY <1>4, <2>1, <2>2 DEF RbufDrop2, StoreUsed
  <1> QED
    BY <1>1, <1>2, <1>3, <1>4 DEF BufferRead

(* The reset empties the ring under the feet of core 0. *)
LEMMA ResetInBounds ==
    ASSUME Counts, dz11prvReset
    PROVE  Counts'
  <1>1. CASE ResetLine
    <2>1. used' = 0
      BY <1>1, StoreInRange DEF ResetLine, StoreUsed
    <2> QED
      BY <1>1, <2>1 DEF ResetLine, StoreUsed
  <1>2. CASE ResetFlags
    BY <1>2 DEF ResetFlags
  <1> QED
    BY <1>1, <1>2 DEF dz11prvReset

(* Everything else core 1 does leaves the counts alone. *)
LEMMA OtherWorkAside ==
    ASSUME Counts,
           \/ StatusRead \/ ControlWrite \/ AckRead \/ AckZero
           \/ cpuPrvTakeException \/ Mtc0Cause
    PROVE  Counts'
  <1>1. Aside("cpu")
    <2>1. CASE StatusRead
      BY <2>1 DEF StatusRead, Begin
    <2>2. CASE ControlWrite
      <3>1. CASE Begin("csr", "mse")
        BY <3>1 DEF Begin
      <3>2. CASE CsrMSE
        BY <3>2 DEF CsrMSE
      <3>3. CASE CsrMSE2
        BY <3>3 DEF CsrMSE2
      <3>4. CASE CsrRIE
        BY <3>4 DEF CsrRIE
      <3>5. CASE \E on \in IrqEnables : CsrRIE2(on)
        BY <3>5 DEF CsrRIE2
      <3> QED
        BY <2>2, <3>1, <3>2, <3>3, <3>4, <3>5 DEF ControlWrite
    <2>3. CASE AckRead
      BY <2>3 DEF AckRead, Begin
    <2>4. CASE AckZero
      BY <2>4 DEF AckZero
    <2>5. CASE cpuPrvTakeException
      BY <2>5 DEF cpuPrvTakeException, Assigns
    <2>6. CASE Mtc0Cause
      BY <2>6 DEF Mtc0Cause, Assigns
    <2> QED
      BY <2>1, <2>2, <2>3, <2>4, <2>5, <2>6
  <1> QED
    BY <1>1, AsideKeeps

(* Counts is inductive: it holds at every step of every interleaving.      *)
THEOREM CountsHold == RaceSpec => []Counts
  <1>1. RaceInit => Counts
    BY CountsInit
  <1>2. Counts /\ [RaceNext]_raceVars => Counts'
    <2> SUFFICES ASSUME Counts, [RaceNext]_raceVars PROVE Counts'
      OBVIOUS
    <2>1. CASE Console
      BY <2>1, ConsoleInBounds, RecalcAside DEF Console
    <2>2. CASE Timer
      BY <2>2, TimerAside, RecalcAside DEF Timer
    <2>3. CASE Cpu
      BY <2>3, RbufInBounds, ResetInBounds, OtherWorkAside, RecalcAside DEF Cpu
    <2>4. CASE UNCHANGED raceVars
      BY <2>4 DEF raceVars
    <2> QED
      BY <2>1, <2>2, <2>3, <2>4 DEF RaceNext
  <1> QED
    BY <1>1, <1>2, PTL DEF RaceSpec

(* The count of characters held stays within the ring whatever the two     *)
(* cores and the timer do (dz11.c:169-179, 216-219).                       *)
THEOREM RingInBounds == RaceSpec => []UsedInBounds
  <1>1. Counts => UsedInBounds
    BY DEF UsedInBounds
  <1> QED
    BY <1>1, CountsHold, PTL
=============================================================================
