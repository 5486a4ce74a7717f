--------------------------- MODULE CacheL2_proofs ---------------------------
(***************************************************************************)
(* Proofs about CacheL2, for every number of sets, lines, lanes and bytes, *)
(* and chips of every size: that lines have their rows in common is part   *)
(* of what is promised.                                                    *)
(***************************************************************************)
EXTENDS CacheL2, TLAPS

LEMMA SplitNumber ==
    ASSUME NEW n \in Nat \ {0}, NEW a \in Nat, NEW b \in Nat,
           a % n = b % n, a \div n = b \div n
    PROVE  a = b
<1>1. a = n * (a \div n) + (a % n)
  BY SMT
<1>2. b = n * (b \div n) + (b % n)
  BY SMT
<1> QED BY <1>1, <1>2

LEMMA ModRange ==
    ASSUME NEW n \in Nat \ {0}, NEW a \in Nat
    PROVE  a % n \in 0 .. n - 1
BY SMT

LEMMA SmallMod ==
    ASSUME NEW n \in Nat \ {0}, NEW a \in 0 .. n - 1
    PROVE  a % n = a
BY SMT

(* A line belongs to one set and is recognised there by its tag. *)
LEMMA IndexType == \A l \in Line : get_index(l) \in Index
BY SizeAssumption, ModRange DEF Line, Index, get_index

LEMMA RowType == \A l \in Line : RowOf(l) \in Row
BY SizeAssumption, ModRange DEF Line, Row, RowOf

LEMMA TagDetermines ==
    ASSUME NEW l \in Line, NEW k \in Line,
           get_index(l) = get_index(k), TagOf(l) = TagOf(k)
    PROVE  l = k
<1>1. l \in Nat /\ k \in Nat
  BY SizeAssumption DEF Line
<1> QED BY <1>1, SizeAssumption, SplitNumber DEF get_index, TagOf

(* Nothing else is written where an undisturbed line is kept. *)
LEMMA AloneIs ==
    ASSUME written \subseteq Line, NEW l \in Line
    PROVE  SafeRam!Alone(l) <=>
              \A k \in written \ {l} : RowOf(k) # RowOf(l)
BY DEF SafeRam!Alone, Rows

(* Who is undisturbed after a step was so before, as lines stay written. *)
LEMMA AloneBefore ==
    ASSUME TypeOK, TypeOK', written \subseteq written', NEW l \in Line,
           SafeRam!Alone(l)'
    PROVE  SafeRam!Alone(l)
<1>1. \A k \in written' \ {l} : RowOf(k) # RowOf(l)
  BY DEF SafeRam!Alone, Rows, RowOf, TypeOK
<1> QED BY <1>1, AloneIs DEF TypeOK
-----------------------------------------------------------------------------
(* What the driver hands over. *)

LEMMA ReceivedType ==
    ASSUME NEW row \in [Lane -> Byte], NEW junk \in Byte
    PROVE  Received(row, junk) \in [0 .. LineSize + 1 -> Byte]
BY SizeAssumption, ByteAssumption DEF Received, Lane

LEMMA ReadType ==
    ASSUME NEW l \in Line, NEW s \in Slot, NEW junk \in Byte,
           NEW chips \in [Row -> [Lane -> Byte]],
           data \in [Slot -> [Lane -> Byte]]
    PROVE  psram_read(l, s, chips, junk) \in [Slot -> [Lane -> Byte]]
<1> DEFINE b == Received(chips[RowOf(l)], junk)
<1>1. b \in [0 .. LineSize + 1 -> Byte]
  BY RowType, ReceivedType
<1>2. \A o \in Lane : o \in 0 .. LineSize + 1
  BY SizeAssumption DEF Lane
<1>3. \A o \in Lane : o < 2 => LineSize + o \in 0 .. LineSize + 1
  BY SizeAssumption DEF Lane
<1>4. [o \in Lane |-> b[o]] \in [Lane -> Byte]
  BY <1>1, <1>2
<1>5. \A x \in Slot : [o \in Lane |-> IF o < 2 THEN b[LineSize + o]
                                      ELSE data[x][o]] \in [Lane -> Byte]
  BY <1>1, <1>3
<1> HIDE DEF b
<1>6. psram_read(l, s, chips, junk) =
        [x \in Slot |->
           IF x = s THEN [o \in Lane |-> b[o]]
           ELSE IF Follows(x, s)
                THEN [o \in Lane |-> IF o < 2 THEN b[LineSize + o]
                                              ELSE data[x][o]]
                ELSE data[x]]
  BY DEF psram_read, b
<1> QED BY <1>4, <1>5, <1>6

(* On the safe lanes a fill brings in what the chips hold and leaves every *)
(* other slot alone.                                                       *)
LEMMA ReadSafe ==
    ASSUME NEW l \in Line, NEW s \in Slot, NEW junk \in Byte,
           NEW chips \in [Row -> [Lane -> Byte]],
           data \in [Slot -> [Lane -> Byte]]
    PROVE  LET d == psram_read(l, s, chips, junk)
           IN  /\ \A o \in Safe : d[s][o] = chips[RowOf(l)][o]
               /\ \A x \in Slot \ {s}, o \in Safe : d[x][o] = data[x][o]
<1>1. \A o \in Safe : /\ o \in Lane
                      /\ o \in 0 .. LineSize + 1
                      /\ o % 2 = 0 /\ ~ (o < 2) /\ o < LineSize
  BY SizeAssumption DEF Safe, Lane
<1>2. \A o \in Safe : Received(chips[RowOf(l)], junk)[o] = chips[RowOf(l)][o]
  BY <1>1 DEF Received
<1>3. \A o \in Safe :
         psram_read(l, s, chips, junk)[s][o] = chips[RowOf(l)][o]
  BY <1>1, <1>2 DEF psram_read
<1>4. \A x \in Slot \ {s}, o \in Safe :
         psram_read(l, s, chips, junk)[x][o] = data[x][o]
  BY <1>1 DEF psram_read
<1> QED BY <1>3, <1>4

LEMMA SlotType == \A l \in Line, t \in Way : <<get_index(l), t>> \in Slot
BY IndexType DEF Slot

LEMMA ChipsType ==
    ASSUME TypeOK, NEW l \in Line, NEW s \in Slot
    PROVE  Chips(l, s) \in [Row -> [Lane -> Byte]]
BY DEF Chips, psram_write, TypeOK

(* What lies behind the buffer of a fill is bytes. *)
LEMMA BehindType ==
    ASSUME TypeOK, NEW s \in Slot
    PROVE  Behind(s) \subseteq Byte
<1>1. \A x \in Slot : data[x][0] \in Byte
  BY SizeAssumption DEF TypeOK, Lane
<1> QED BY <1>1, ByteAssumption DEF Behind

(* A step is one of the four ways a call can go. *)
LEMMA Steps ==
    ASSUME TypeOK, Next
    PROVE  \E l \in Line, P \in Pieces, t \in Way :
              \/ ReadHit(l, t, P)
              \/ \E junk \in Byte : ReadMiss(l, t, P, junk)
              \/ \E w \in [P -> Byte] : WriteHit(l, t, w)
              \/ \E w \in [P -> Byte], junk \in Byte :
                    WriteMiss(l, t, w, junk)
<1>1. \A l \in Line, t \in Way : Behind(<<get_index(l), t>>) \subseteq Byte
  BY SlotType, BehindType
<1> QED BY <1>1 DEF Next, cache_read_l2, cache_write_l2

LEMMA memcpyType ==
    ASSUME NEW row \in [Lane -> Byte], NEW P \in Pieces, NEW w \in [P -> Byte]
    PROVE  memcpy(row, w) \in [Lane -> Byte]
BY DEF memcpy

-----------------------------------------------------------------------------
(* The two ways a miss and a hit end, whatever the operation. *)

(* What a miss leaves of the state, the memcpy of a write aside. *)
Fill(l, s, dirty) ==
    /\ \A u \in Way : ~ Matches(<<get_index(l), u>>, l)
    /\ s = <<get_index(l), Victim(l)>>
    /\ psram' = Chips(l, s)
    /\ tags' = [tags EXCEPT ![s] =
                  [line |-> l, valid |-> TRUE, dirty |-> dirty]]
    /\ \A x \in Slot \ {s}, o \in Safe : data'[x][o] = data[x][o]
    /\ Used(l, Victim(l))

LEMMA WriteMissFills ==
    ASSUME TypeOK, NEW l \in Line, NEW t \in Way, NEW P \in Pieces,
           NEW w \in [P -> Byte], NEW junk \in Byte, WriteMiss(l, t, w, junk)
    PROVE  LET s == <<get_index(l), t>>
           IN  /\ s \in Slot
               /\ Fill(l, s, TRUE)
               /\ data' \in [Slot -> [Lane -> Byte]]
               /\ \A o \in Safe : data'[s][o] =
                     IF o \in DOMAIN w THEN w[o] ELSE Chips(l, s)[RowOf(l)][o]
<1> DEFINE s == <<get_index(l), t>>
           c == Chips(l, s)
           d == psram_read(l, s, c, junk)
<1>1. s \in Slot
  BY SlotType
<1>2. c \in [Row -> [Lane -> Byte]]
  BY <1>1, ChipsType
<1>3. d \in [Slot -> [Lane -> Byte]]
  BY <1>1, <1>2, ReadType DEF TypeOK
<1>4. /\ \A o \in Safe : d[s][o] = c[RowOf(l)][o]
      /\ \A x \in Slot \ {s}, o \in Safe : d[x][o] = data[x][o]
  <2>1. data \in [Slot -> [Lane -> Byte]]
    BY DEF TypeOK
  <2> HIDE DEF s, c
  <2> QED BY <1>1, <1>2, <2>1, ReadSafe
<1>5. /\ psram' = c
      /\ data' = [d EXCEPT ![s] = memcpy(d[s], w)]
      /\ tags' = [tags EXCEPT ![s] =
                    [line |-> l, valid |-> TRUE, dirty |-> TRUE]]
      /\ Miss(l, t)
      /\ Used(l, t)
  BY DEF WriteMiss
<1> HIDE DEF c, d
<1>6. memcpy(d[s], w) \in [Lane -> Byte]
  BY <1>1, <1>3, memcpyType
<1>7. data' \in [Slot -> [Lane -> Byte]]
  BY <1>1, <1>3, <1>5, <1>6
<1>8. \A o \in Safe : data'[s][o] = IF o \in DOMAIN w THEN w[o]
                                           ELSE c[RowOf(l)][o]
  <2> SUFFICES ASSUME NEW o \in Safe
               PROVE  data'[s][o] = IF o \in DOMAIN w THEN w[o]
                                                     ELSE c[RowOf(l)][o]
    OBVIOUS
  <2>1. data'[s] = memcpy(d[s], w)
    BY <1>1, <1>3, <1>5
  <2>2. o \in Lane
    BY DEF Safe
  <2> QED BY <2>1, <2>2, <1>4 DEF memcpy
<1>9. \A x \in Slot \ {s}, o \in Safe : data'[x][o] = data[x][o]
  BY <1>1, <1>3, <1>4, <1>5
<1>10. Fill(l, s, TRUE)
  BY <1>5, <1>9 DEF Fill, Miss, c
<1> QED BY <1>1, <1>7, <1>8, <1>10 DEF c

LEMMA ReadMissFills ==
    ASSUME TypeOK, NEW l \in Line, NEW t \in Way, NEW P \in Pieces,
           NEW junk \in Byte, ReadMiss(l, t, P, junk)
    PROVE  LET s == <<get_index(l), t>>
           IN  /\ s \in Slot
               /\ Fill(l, s, FALSE)
               /\ data' \in [Slot -> [Lane -> Byte]]
               /\ Called("read", l, [o \in P |-> data'[s][o]])
               /\ \A o \in Safe : data'[s][o] = Chips(l, s)[RowOf(l)][o]
<1> DEFINE s == <<get_index(l), t>>
           c == Chips(l, s)
           d == psram_read(l, s, c, junk)
<1>1. s \in Slot
  BY SlotType
<1>2. c \in [Row -> [Lane -> Byte]]
  BY <1>1, ChipsType
<1>3. d \in [Slot -> [Lane -> Byte]]
  BY <1>1, <1>2, ReadType DEF TypeOK
<1>4. /\ \A o \in Safe : d[s][o] = c[RowOf(l)][o]
      /\ \A x \in Slot \ {s}, o \in Safe : d[x][o] = data[x][o]
  <2>1. data \in [Slot -> [Lane -> Byte]]
    BY DEF TypeOK
  <2> HIDE DEF s, c
  <2> QED BY <1>1, <1>2, <2>1, ReadSafe
<1>5. /\ psram' = c
      /\ data' = d
      /\ tags' = [tags EXCEPT ![s] =
                    [line |-> l, valid |-> TRUE, dirty |-> FALSE]]
      /\ Called("read", l, [o \in P |-> d[s][o]])
      /\ Miss(l, t)
      /\ Used(l, t)
  BY DEF ReadMiss
<1> HIDE DEF c, d
<1>6. Fill(l, s, FALSE)
  BY <1>4, <1>5 DEF Fill, Miss, c
<1> QED BY <1>1, <1>3, <1>4, <1>5, <1>6 DEF c
-----------------------------------------------------------------------------
(* Type correctness. *)

LEMMA FillType ==
    ASSUME TypeOK, NEW l \in Line, NEW s \in Slot,
           NEW dirty \in BOOLEAN, Fill(l, s, dirty)
    PROVE  /\ tags' \in [Slot -> Tag]
           /\ lru' \in [Index -> Way]
           /\ psram' \in [Row -> [Lane -> Byte]]
<1>1. tags' \in [Slot -> Tag]
  BY DEF TypeOK, Fill, Tag
<1>2. Victim(l) \in Way
  BY IndexType DEF Victim, TypeOK, Way
<1>3. lru' \in [Index -> Way]
  BY <1>2 DEF TypeOK, Fill, Used
<1>4. psram' \in [Row -> [Lane -> Byte]]
  BY ChipsType DEF Fill
<1> QED BY <1>1, <1>3, <1>4

LEMMA CalledType ==
    ASSUME NEW op \in {"read", "write"}, NEW l \in Line, NEW P \in Pieces,
           NEW b \in [P -> Byte], Called(op, l, b)
    PROVE  /\ last' \in [op : {"none", "read", "write"}, line : Line, bytes : Bytes]
           /\ written \subseteq Line => written' \subseteq Line
<1>1. b \in Bytes
  BY DEF Bytes
<1> QED BY <1>1 DEF Called

LEMMA TypeNext == TypeOK /\ [Next]_vars => TypeOK'
<1> SUFFICES ASSUME TypeOK, [Next]_vars PROVE TypeOK'
  OBVIOUS
<1>1. ASSUME NEW l \in Line, NEW P \in Pieces, NEW t \in Way, ReadHit(l, t, P)
      PROVE  TypeOK'
  <2>1. <<get_index(l), t>> \in Slot /\ P \subseteq Lane
    BY SlotType, ByteAssumption
  <2>2. /\ last' \in [op : {"none", "read", "write"}, line : Line, bytes : Bytes]
        /\ written' \subseteq Line
    <3>1. [o \in P |-> data[<<get_index(l), t>>][o]] \in [P -> Byte]
      BY <2>1 DEF TypeOK
    <3> QED BY <1>1, <3>1, CalledType DEF ReadHit, TypeOK
  <2>3. lru' \in [Index -> Way]
    BY <1>1 DEF ReadHit, Used, TypeOK
  <2> QED BY <1>1, <2>2, <2>3 DEF ReadHit, TypeOK
<1>2. ASSUME NEW l \in Line, NEW P \in Pieces, NEW t \in Way,
             NEW junk \in Byte, ReadMiss(l, t, P, junk)
      PROVE  TypeOK'
  <2>1. <<get_index(l), t>> \in Slot /\ P \subseteq Lane
    BY SlotType, ByteAssumption
  <2>2. /\ Fill(l, <<get_index(l), t>>, FALSE)
        /\ data' \in [Slot -> [Lane -> Byte]]
        /\ Called("read", l, [o \in P |-> data'[<<get_index(l), t>>][o]])
    BY <1>2, ReadMissFills
  <2>3. /\ last' \in [op : {"none", "read", "write"}, line : Line, bytes : Bytes]
        /\ written' \subseteq Line
    <3>1. [o \in P |-> data'[<<get_index(l), t>>][o]] \in [P -> Byte]
      BY <2>1, <2>2
    <3> QED BY <2>2, <3>1, CalledType DEF TypeOK
  <2> QED BY <2>1, <2>2, <2>3, FillType DEF TypeOK
<1>3. ASSUME NEW l \in Line, NEW P \in Pieces, NEW t \in Way,
             NEW w \in [P -> Byte], WriteHit(l, t, w)
      PROVE  TypeOK'
  <2> DEFINE s == <<get_index(l), t>>
  <2>1. s \in Slot
    BY SlotType
  <2>2. memcpy(data[s], w) \in [Lane -> Byte]
    BY <2>1, memcpyType DEF TypeOK
  <2>3. data' \in [Slot -> [Lane -> Byte]]
    BY <1>3, <2>1, <2>2 DEF WriteHit, TypeOK
  <2>4. tags' \in [Slot -> Tag]
    BY <1>3, <2>1 DEF WriteHit, TypeOK, Tag
  <2>5. lru' \in [Index -> Way]
    BY <1>3 DEF WriteHit, Used, TypeOK
  <2>6. /\ last' \in [op : {"none", "read", "write"}, line : Line, bytes : Bytes]
        /\ written' \subseteq Line
    BY <1>3, CalledType DEF WriteHit, TypeOK
  <2> QED BY <1>3, <2>3, <2>4, <2>5, <2>6 DEF WriteHit, TypeOK
<1>4. ASSUME NEW l \in Line, NEW P \in Pieces, NEW t \in Way,
             NEW w \in [P -> Byte], NEW junk \in Byte, WriteMiss(l, t, w, junk)
      PROVE  TypeOK'
  <2>1. /\ <<get_index(l), t>> \in Slot
        /\ Fill(l, <<get_index(l), t>>, TRUE)
        /\ data' \in [Slot -> [Lane -> Byte]]
    BY <1>4, WriteMissFills
  <2>2. /\ last' \in [op : {"none", "read", "write"}, line : Line, bytes : Bytes]
        /\ written' \subseteq Line
    BY <1>4, CalledType DEF WriteMiss, TypeOK
  <2> QED BY <2>1, <2>2, FillType DEF TypeOK
<1>5. CASE UNCHANGED vars
  BY <1>5 DEF vars, TypeOK
<1> QED BY <1>1, <1>2, <1>3, <1>4, <1>5, Steps

LEMMA TypeInit == Init => TypeOK
<1> SUFFICES ASSUME Init PROVE TypeOK
  OBVIOUS
<1>1. tags \in [Slot -> Tag]
  BY SizeAssumption DEF Init, Tag, Line
<1>2. /\ lru \in [Index -> Way]
      /\ data \in [Slot -> [Lane -> Byte]]
      /\ psram \in [Row -> [Lane -> Byte]]
  BY ByteAssumption DEF Init, Way
<1>3. last \in [op : {"none", "read", "write"}, line : Line, bytes : Bytes]
  <2>1. [o \in {} |-> 0] \in Bytes
    BY DEF Bytes
  <2> QED BY <2>1, SizeAssumption DEF Init, Line
<1>4. written \subseteq Line
  BY DEF Init
<1> QED BY <1>1, <1>2, <1>3, <1>4 DEF TypeOK

(* The state of the cache keeps its shape: in particular an answer has a   *)
(* byte for each byte asked for.                                           *)
THEOREM TypeCorrect == Spec => []TypeOK
BY TypeInit, TypeNext, PTL DEF Spec
-----------------------------------------------------------------------------
(* The inductive invariant. *)

(* No line has two slots: the set follows from the line, and the two ways  *)
(* of a set hold different lines.                                          *)
LEMMA OneSlot == IInv => NoAlias
<1> SUFFICES ASSUME IInv, NEW s \in Slot, NEW r \in Slot,
                    tags[s].valid, tags[r].valid,
                    tags[s].line = tags[r].line
             PROVE  s = r
  BY DEF NoAlias
<1>1. s[1] = r[1] /\ s[1] \in Index /\ s[2] \in Way /\ r[2] \in Way
      /\ s = <<s[1], s[2]>> /\ r = <<s[1], r[2]>>
  BY DEF IInv, SlotInv, Slot
<1>2. CASE s[2] = r[2]
  BY <1>1, <1>2
<1>3. CASE s[2] = 0 /\ r[2] = 1
  BY <1>1, <1>3 DEF IInv, WaysDiffer
<1>4. CASE s[2] = 1 /\ r[2] = 0
  BY <1>1, <1>4 DEF IInv, WaysDiffer
<1> QED BY <1>1, <1>2, <1>3, <1>4 DEF Way

(* A search that fails means the line is in no slot at all. *)
LEMMA MissIsAbsent ==
    ASSUME IInv, NEW l \in Line,
           \A u \in Way : ~ Matches(<<get_index(l), u>>, l)
    PROVE  ~ Resident(l)
<1> SUFFICES ASSUME NEW s \in Slot, Holds(s, l) PROVE FALSE
  BY DEF Resident
<1>1. s = <<get_index(l), s[2]>> /\ s[2] \in Way
  BY DEF IInv, SlotInv, Holds, Slot
<1>2. Matches(s, l)
  BY DEF Holds, Matches
<1> QED BY <1>1, <1>2

(* Conversely the slot a search finds holds that very line. *)
LEMMA HitHolds ==
    ASSUME IInv, NEW l \in Line, NEW t \in Way, Hit(l, t)
    PROVE  Holds(<<get_index(l), t>>, l)
<1> DEFINE s == <<get_index(l), t>>
<1>1. s \in Slot /\ tags[s].valid /\ TagOf(tags[s].line) = TagOf(l)
  BY SlotType DEF Hit, Matches
<1>2. tags[s].line \in Line /\ get_index(tags[s].line) = get_index(l)
  BY <1>1 DEF IInv, SlotInv, TypeOK, Tag
<1>3. tags[s].line = l
  BY <1>1, <1>2, TagDetermines
<1> QED BY <1>1, <1>3 DEF Holds

(* Making room touches the row of the victim's line, which has been        *)
(* written, and leaves there what the slot held: no line is changed that   *)
(* is alone in its row.                                                    *)
LEMMA WriteBack ==
    ASSUME IInv, NEW l \in Line, NEW s \in Slot,
           s = <<get_index(l), Victim(l)>>,
           NEW k \in Line, SafeRam!Alone(k)
    PROVE  /\ ~ Holds(s, k) => Chips(l, s)[RowOf(k)] = psram[RowOf(k)]
           /\ Holds(s, k) => \A o \in Safe :
                                Chips(l, s)[RowOf(k)][o] = data[s][o]
<1>1. SlotInv(s) /\ TypeOK /\ tags[s].line \in Line
  BY DEF IInv, TypeOK, Tag
<1>2. CASE Chips(l, s) = psram /\ ~ tags[s].valid
  BY <1>2 DEF Holds
<1>3. CASE Chips(l, s) = psram_write(s) /\ ~ tags[s].dirty
  BY <1>1, <1>3 DEF Holds, psram_write, SlotInv
<1>4. CASE Chips(l, s) = psram_write(s) /\ tags[s].dirty
  <2>1. Chips(l, s) = [psram EXCEPT ![RowOf(tags[s].line)] = data[s]]
    BY <1>4 DEF psram_write
  <2>2. Holds(s, tags[s].line) /\ tags[s].line \in written
    BY <1>1, <1>4 DEF SlotInv, Holds
  <2>3. ASSUME ~ Holds(s, k)
        PROVE  Chips(l, s)[RowOf(k)] = psram[RowOf(k)]
    <3>1. RowOf(k) # RowOf(tags[s].line)
      <4>1. tags[s].line \in written \ {k}
        BY <2>2, <2>3
      <4> QED BY <1>1, <4>1, AloneIs DEF TypeOK
    <3> QED BY <1>1, <2>1, <3>1, RowType DEF TypeOK
  <2>4. ASSUME Holds(s, k)
        PROVE  Chips(l, s)[RowOf(k)] = data[s]
    BY <1>1, <2>1, <2>4, RowType DEF TypeOK, Holds
  <2> QED BY <2>3, <2>4
<1>5. tags[<<get_index(l), 1>>].valid \/ (Victim(l) = 1 /\ ~ tags[s].valid)
  BY DEF Victim
<1> QED BY <1>2, <1>3, <1>4, <1>5 DEF Chips

LEMMA InvInit == Init => IInv
<1> SUFFICES ASSUME Init PROVE IInv
  OBVIOUS
<1>1. TypeOK
  BY TypeInit
<1>2. \A s \in Slot : ~ tags[s].valid /\ ~ tags[s].dirty
  BY DEF Init
<1>3. \A i \in Index : <<i, 0>> \in Slot
  BY DEF Slot, Way
<1> QED BY <1>1, <1>2, <1>3 DEF IInv, SlotInv, WaysDiffer

(* A miss preserves the invariant, whichever operation caused it, if what  *)
(* a read brings in is what the chips hold.                                *)
LEMMA FillInv ==
    ASSUME IInv, TypeOK', NEW l \in Line, NEW s \in Slot,
           NEW dirty \in BOOLEAN, Fill(l, s, dirty),
           written \subseteq written', dirty => l \in written',
           ~ dirty => \A o \in Safe : data'[s][o] = Chips(l, s)[RowOf(l)][o]
    PROVE  IInv'
<1>0. TypeOK
  BY DEF IInv
<1>1. /\ tags' = [tags EXCEPT ![s] =
                    [line |-> l, valid |-> TRUE, dirty |-> dirty]]
      /\ psram' = Chips(l, s)
      /\ \A x \in Slot \ {s}, o \in Safe : data'[x][o] = data[x][o]
      /\ s = <<get_index(l), Victim(l)>>
      /\ \A u \in Way : ~ Matches(<<get_index(l), u>>, l)
  BY DEF Fill
<1>2. tags'[s] = [line |-> l, valid |-> TRUE, dirty |-> dirty]
  BY <1>1 DEF IInv, TypeOK
<1>3. \A x \in Slot \ {s} : tags'[x] = tags[x]
  BY <1>1 DEF IInv, TypeOK
<1>4. SlotInv(s)'
  BY <1>1, <1>2 DEF SlotInv
<1>5. ASSUME NEW x \in Slot \ {s} PROVE SlotInv(x)'
  <2>1. SlotInv(x) /\ tags[x].line \in Line
    BY DEF IInv, TypeOK, Tag
  <2>2. ASSUME tags[x].valid, SafeRam!Alone(tags[x].line)'
        PROVE  /\ psram'[RowOf(tags[x].line)] = psram[RowOf(tags[x].line)]
               /\ SafeRam!Alone(tags[x].line)
    <3>1. ~ Holds(s, tags[x].line)
      BY <2>2, OneSlot DEF NoAlias, Holds
    <3>2. tags'[x].line = tags[x].line
      BY <1>3
    <3>3. SafeRam!Alone(tags[x].line)
      BY <1>0, <2>1, <2>2, <3>2, AloneBefore DEF SafeRam!Alone
    <3> QED BY <1>1, <2>1, <3>1, <3>3, WriteBack
  <2> QED BY <1>1, <1>3, <2>1, <2>2 DEF SlotInv
<1>6. WaysDiffer'
  <2> SUFFICES ASSUME NEW i \in Index,
                      tags'[<<i, 0>>].valid, tags'[<<i, 1>>].valid
               PROVE  tags'[<<i, 0>>].line # tags'[<<i, 1>>].line
    BY DEF WaysDiffer
  <2>1. <<i, 0>> \in Slot /\ <<i, 1>> \in Slot
    BY DEF Slot, Way
  <2>2. ~ Resident(l)
    BY <1>1, MissIsAbsent
  <2>3. CASE s = <<i, 0>>
    BY <1>2, <1>3, <2>1, <2>2, <2>3 DEF Resident, Holds
  <2>4. CASE s = <<i, 1>>
    BY <1>2, <1>3, <2>1, <2>2, <2>4 DEF Resident, Holds
  <2>5. CASE s # <<i, 0>> /\ s # <<i, 1>>
    BY <1>3, <2>1, <2>5 DEF IInv, WaysDiffer
  <2> QED BY <2>3, <2>4, <2>5
<1> QED BY <1>4, <1>5, <1>6 DEF IInv

LEMMA InvNext == IInv /\ [Next]_vars => IInv'
<1> SUFFICES ASSUME IInv, [Next]_vars PROVE IInv'
  OBVIOUS
<1> USE TypeNext
<1>0. TypeOK /\ TypeOK'
  BY DEF IInv
<1>1. ASSUME NEW l \in Line, NEW P \in Pieces, NEW t \in Way, ReadHit(l, t, P)
      PROVE  IInv'
  BY <1>0, <1>1 DEF ReadHit, Called, IInv, SlotInv, WaysDiffer, SafeRam!Alone
<1>2. ASSUME NEW l \in Line, NEW P \in Pieces, NEW t \in Way,
             NEW junk \in Byte, ReadMiss(l, t, P, junk)
      PROVE  IInv'
  <2> DEFINE s == <<get_index(l), t>>
  <2>1. /\ s \in Slot /\ Fill(l, s, FALSE)
        /\ \A o \in Safe : data'[s][o] = Chips(l, s)[RowOf(l)][o]
    BY <1>0, <1>2, ReadMissFills
  <2>2. written' = written
    BY <1>2 DEF ReadMiss, Called
  <2> HIDE DEF s
  <2> QED BY <1>0, <2>1, <2>2, FillInv
<1>3. ASSUME NEW l \in Line, NEW P \in Pieces, NEW t \in Way,
             NEW w \in [P -> Byte], WriteHit(l, t, w)
      PROVE  IInv'
  <2> DEFINE s == <<get_index(l), t>>
  <2>1. s \in Slot /\ tags[s].valid
    BY <1>3, SlotType DEF WriteHit, Hit, Matches
  <2>2. /\ tags' = [tags EXCEPT ![s].dirty = TRUE]
        /\ data' = [data EXCEPT ![s] = memcpy(data[s], w)]
        /\ psram' = psram
    BY <1>3 DEF WriteHit
  <2> HIDE DEF s
  <2>3. \A x \in Slot : /\ tags'[x].line = tags[x].line
                        /\ tags'[x].valid = tags[x].valid
                        /\ x # s => /\ data'[x] = data[x]
                                    /\ tags'[x] = tags[x]
    BY <1>0, <2>1, <2>2 DEF TypeOK, Tag
  <2>4. tags'[s].dirty
    BY <1>0, <2>1, <2>2 DEF TypeOK, Tag
  <2>5. \A x \in Slot : SlotInv(x)'
    <3>1. written' = written \cup {l} /\ tags[s].line = l
      BY <1>0, <1>3, HitHolds DEF WriteHit, Called, Holds, s
    <3>2. ASSUME NEW x \in Slot, x # s, SafeRam!Alone(tags[x].line)'
          PROVE  SafeRam!Alone(tags[x].line)
      <4>1. tags[x].line \in Line /\ tags'[x].line = tags[x].line
        BY <1>0, <2>3 DEF TypeOK, Tag
      <4> QED BY <1>0, <3>1, <3>2, <4>1, AloneBefore
    <3>3. ASSUME NEW x \in Slot, x # s PROVE SlotInv(x)'
      BY <2>2, <2>3, <3>1, <3>2, <3>3 DEF IInv, SlotInv
    <3>4. SlotInv(s)'
      BY <2>1, <2>3, <2>4, <3>1 DEF IInv, SlotInv
    <3> QED BY <3>3, <3>4
  <2>6. WaysDiffer'
    BY <2>3 DEF IInv, WaysDiffer, Slot, Way
  <2> QED BY <1>0, <2>5, <2>6 DEF IInv
<1>4. ASSUME NEW l \in Line, NEW P \in Pieces, NEW t \in Way,
             NEW w \in [P -> Byte], NEW junk \in Byte, WriteMiss(l, t, w, junk)
      PROVE  IInv'
  <2> DEFINE s == <<get_index(l), t>>
  <2>1. s \in Slot /\ Fill(l, s, TRUE)
    BY <1>0, <1>4, WriteMissFills
  <2>2. written' = written \cup {l}
    BY <1>4 DEF WriteMiss, Called
  <2> HIDE DEF s
  <2> QED BY <1>0, <2>1, <2>2, FillInv
<1>5. CASE UNCHANGED vars
  BY <1>0, <1>5 DEF vars, IInv, SlotInv, WaysDiffer, SafeRam!Alone
<1> QED BY <1>0, <1>1, <1>2, <1>3, <1>4, <1>5, Steps

(* Search, fills and write-backs keep every slot in order, whatever the    *)
(* size of the chips: a slot holds lines of its own set, the ways of a set *)
(* differ, what is dirty has been written, and what is clean agrees with   *)
(* the chips unless another line of its row has been written.              *)
THEOREM Inductive == Spec => []IInv
BY InvInit, InvNext, PTL DEF Spec

(* No line is ever in two slots, so no write is made to one copy and read  *)
(* from another.                                                           *)
THEOREM NoAliases == Spec => []NoAlias
BY Inductive, OneSlot, PTL
-----------------------------------------------------------------------------
(* The replacement policy. *)

LEMMA FillKeepsLastUsed ==
    ASSUME TypeOK, NEW l \in Line, NEW s \in Slot, NEW dirty \in BOOLEAN,
           Fill(l, s, dirty), NEW i \in Index, tags[<<i, lru[i]>>].valid
    PROVE  tags'[<<i, lru[i]>>] = tags[<<i, lru[i]>>]
<1> DEFINE r == <<i, lru[i]>>
<1>1. r \in Slot /\ lru[i] \in Way
  BY DEF TypeOK, Slot
<1>2. s = <<get_index(l), Victim(l)>>
  BY DEF Fill
<1>3. r # s
  <2> SUFFICES ASSUME i = get_index(l) PROVE lru[i] # Victim(l)
    BY <1>2
  <2>1. CASE tags[<<i, 1>>].valid
    BY <1>1, <2>1 DEF Victim, Way
  <2>2. CASE ~ tags[<<i, 1>>].valid
    BY <1>1, <2>2 DEF Victim, Way
  <2> QED BY <2>1, <2>2
<1> QED BY <1>1, <1>3 DEF Fill, TypeOK

LEMMA LastUsedNext ==
    ASSUME TypeOK, [Next]_vars, NEW i \in Index, tags[<<i, lru[i]>>].valid
    PROVE  /\ tags'[<<i, lru[i]>>].valid
           /\ tags'[<<i, lru[i]>>].line = tags[<<i, lru[i]>>].line
<1>1. ASSUME NEW l \in Line, NEW P \in Pieces, NEW t \in Way, ReadHit(l, t, P)
      PROVE  tags' = tags
  BY <1>1 DEF ReadHit
<1>2. ASSUME NEW l \in Line, NEW P \in Pieces, NEW t \in Way,
             NEW junk \in Byte, ReadMiss(l, t, P, junk)
      PROVE  tags'[<<i, lru[i]>>] = tags[<<i, lru[i]>>]
  BY <1>2, ReadMissFills, FillKeepsLastUsed
<1>3. ASSUME NEW l \in Line, NEW P \in Pieces, NEW t \in Way,
             NEW w \in [P -> Byte], WriteHit(l, t, w)
      PROVE  \A s \in Slot : /\ tags'[s].valid = tags[s].valid
                             /\ tags'[s].line = tags[s].line
  BY <1>3, SlotType DEF WriteHit, TypeOK, Tag
<1>4. ASSUME NEW l \in Line, NEW P \in Pieces, NEW t \in Way,
             NEW w \in [P -> Byte], NEW junk \in Byte, WriteMiss(l, t, w, junk)
      PROVE  tags'[<<i, lru[i]>>] = tags[<<i, lru[i]>>]
  <2>1. <<get_index(l), t>> \in Slot /\ Fill(l, <<get_index(l), t>>, TRUE)
    BY <1>4, WriteMissFills
  <2> QED BY <2>1, FillKeepsLastUsed
<1>5. CASE UNCHANGED vars
  BY <1>5 DEF vars
<1>6. <<i, lru[i]>> \in Slot
  BY DEF TypeOK, Slot
<1> QED BY <1>1, <1>2, <1>3, <1>4, <1>5, <1>6, Steps

(* The line used last in a set outlives the next access. *)
THEOREM LastUsedSafe == Spec => LastUsedStays
<1>1. TypeOK /\ [Next]_vars =>
        [\A i \in Index : LET s == <<i, lru[i]>>
                          IN  tags[s].valid =>
                                /\ tags'[s].valid
                                /\ tags'[s].line = tags[s].line]_vars
  BY LastUsedNext
<1> QED BY <1>1, TypeCorrect, PTL DEF Spec, LastUsedStays
-----------------------------------------------------------------------------
(* Refinement: what the machine sees of each line. *)

LEMMA CurrentHeld ==
    IInv => \A s \in Slot, l \in Line : Holds(s, l) => Current(l) = data[s]
<1> SUFFICES ASSUME IInv, NEW s \in Slot, NEW l \in Line, Holds(s, l)
             PROVE  Current(l) = data[s]
  OBVIOUS
<1>1. s = <<get_index(l), s[2]>> /\ s[2] \in Way
  BY DEF IInv, SlotInv, Holds, Slot
<1>2. \A t \in Way : Holds(<<get_index(l), t>>, l) => <<get_index(l), t>> = s
  BY SlotType, OneSlot DEF NoAlias, Holds
<1>3. CASE s[2] = 0
  BY <1>1, <1>3 DEF Current
<1>4. CASE s[2] = 1
  <2>1. ~ Holds(<<get_index(l), 0>>, l)
    BY <1>1, <1>2, <1>4 DEF Way
  <2> QED BY <1>1, <1>4, <2>1 DEF Current
<1> QED BY <1>1, <1>3, <1>4 DEF Way

LEMMA CurrentAbsent ==
    \A l \in Line : ~ Resident(l) => Current(l) = psram[RowOf(l)]
BY SlotType DEF Current, Resident, Way

(* The invariant gives each line its slot now and after the step. *)
LEMMA HeldNowAndThen ==
    ASSUME IInv, IInv'
    PROVE  /\ NoAlias
           /\ \A s \in Slot, l \in Line :
                 /\ Holds(s, l) => Current(l) = data[s]
                 /\ Holds(s, l)' => Current(l)' = data'[s]
           /\ \A l \in Line :
                 /\ ~ Resident(l) => Current(l) = psram[RowOf(l)]
                 /\ ~ Resident(l)' => Current(l)' = psram'[RowOf(l)]
<1>1. NoAlias
  BY OneSlot
<1>2. (\A s \in Slot, l \in Line : Holds(s, l) => Current(l) = data[s])'
  BY CurrentHeld, PTL
<1>3. (\A l \in Line : ~ Resident(l) => Current(l) = psram[RowOf(l)])'
  BY CurrentAbsent, PTL
<1>4. \A l \in Line : ~ Resident(l)' => Current(l)' = psram'[RowOf(l)]
  BY <1>3 DEF RowOf
<1> QED BY <1>1, <1>2, <1>4, CurrentHeld, CurrentAbsent

LEMMA CurrentType ==
    ASSUME TypeOK, NEW l \in Line
    PROVE  Current(l) \in [Lane -> Byte]
BY SlotType, RowType DEF Current, TypeOK, Way

(* A hit leaves every other line as it was. *)
LEMMA HitView ==
    ASSUME IInv, IInv', NEW l \in Line, NEW s \in Slot, Holds(s, l),
           psram' = psram,
           \A x \in Slot : /\ tags'[x].valid = tags[x].valid
                           /\ tags'[x].line = tags[x].line
                           /\ x # s => data'[x] = data[x]
    PROVE  /\ \A k \in Line \ {l} : Current(k)' = Current(k)
           /\ Current(l) = data[s]
           /\ Current(l)' = data'[s]
<1>1. NoAlias
  BY HeldNowAndThen
<1>2. \A x \in Slot, k \in Line : Holds(x, k)' <=> Holds(x, k)
  BY DEF Holds
<1>3. Current(l) = data[s]
  BY HeldNowAndThen
<1>4. Current(l)' = data'[s]
  <2>1. Holds(s, l)'
    BY <1>2
  <2> QED BY <2>1, HeldNowAndThen
<1>5. ASSUME NEW k \in Line \ {l} PROVE Current(k)' = Current(k)
  <2>1. CASE Resident(k)
    <3>1. PICK x \in Slot : Holds(x, k)
      BY <2>1 DEF Resident
    <3>2. x # s
      BY <3>1 DEF Holds
    <3>3. Current(k) = data[x]
      BY <3>1, HeldNowAndThen
    <3>4. Current(k)' = data'[x]
      <4>1. Holds(x, k)'
        BY <1>2, <3>1
      <4> QED BY <4>1, HeldNowAndThen
    <3> QED BY <3>2, <3>3, <3>4
  <2>2. CASE ~ Resident(k)
    <3>1. ~ Resident(k)'
      BY <1>2, <2>2 DEF Resident
    <3> QED BY <2>2, <3>1, HeldNowAndThen
  <2> QED BY <2>1, <2>2
<1> QED BY <1>3, <1>4, <1>5

(* A miss leaves every other line as it was that is alone in its row, the  *)
(* victim's included, and brings in the line as the chips had it.          *)
LEMMA MissView ==
    ASSUME IInv, IInv', NEW l \in Line, NEW s \in Slot,
           NEW dirty \in BOOLEAN, Fill(l, s, dirty)
    PROVE  /\ \A k \in Line \ {l}, o \in Safe :
                 SafeRam!Alone(k) => Current(k)'[o] = Current(k)[o]
           /\ Current(l)' = data'[s]
           /\ SafeRam!Alone(l) => Current(l) = Chips(l, s)[RowOf(l)]
<1>1. /\ s = <<get_index(l), Victim(l)>>
      /\ psram' = Chips(l, s)
      /\ tags' = [tags EXCEPT ![s] =
                    [line |-> l, valid |-> TRUE, dirty |-> dirty]]
      /\ \A x \in Slot \ {s}, o \in Safe : data'[x][o] = data[x][o]
  BY DEF Fill
<1>2. ~ Resident(l)
  BY MissIsAbsent DEF Fill
<1>3. NoAlias
  BY HeldNowAndThen
<1>4. tags'[s].valid /\ tags'[s].line = l
  BY <1>1 DEF IInv, TypeOK
<1>5. \A x \in Slot \ {s} : tags'[x] = tags[x]
  BY <1>1 DEF IInv, TypeOK
<1>6. Current(l)' = data'[s]
  <2>1. Holds(s, l)'
    BY <1>4 DEF Holds
  <2> QED BY <2>1, HeldNowAndThen
<1>7. ASSUME SafeRam!Alone(l) PROVE Current(l) = Chips(l, s)[RowOf(l)]
  <2>1. ~ Holds(s, l)
    BY <1>2 DEF Resident
  <2> QED BY <1>1, <1>2, <1>7, <2>1, HeldNowAndThen, WriteBack
<1>8. ASSUME NEW k \in Line \ {l}, NEW o \in Safe, SafeRam!Alone(k)
      PROVE  Current(k)'[o] = Current(k)[o]
  <2>1. ~ Holds(s, k)'
    BY <1>4 DEF Holds
  <2>2. \A x \in Slot \ {s} : Holds(x, k)' <=> Holds(x, k)
    BY <1>5 DEF Holds
  <2>3. CASE \E x \in Slot \ {s} : Holds(x, k)
    <3>1. PICK x \in Slot \ {s} : Holds(x, k)
      BY <2>3
    <3>2. Current(k) = data[x]
      BY <3>1, HeldNowAndThen
    <3>3. Current(k)' = data'[x]
      <4>1. Holds(x, k)'
        BY <2>2, <3>1
      <4> QED BY <4>1, HeldNowAndThen
    <3> QED BY <1>1, <3>1, <3>2, <3>3
  <2>4. CASE Holds(s, k)
    <3>1. ~ Resident(k)'
      BY <1>3, <2>1, <2>2, <2>4 DEF Resident, NoAlias, Holds
    <3>2. Current(k)' = Chips(l, s)[RowOf(k)]
      BY <1>1, <3>1, HeldNowAndThen
    <3>3. Current(k) = data[s]
      BY <2>4, HeldNowAndThen
    <3> QED BY <1>1, <1>8, <2>4, <3>2, <3>3, WriteBack
  <2>5. CASE ~ Resident(k)
    <3>1. ~ Resident(k)' /\ ~ Holds(s, k)
      BY <2>1, <2>2, <2>5 DEF Resident
    <3>2. Current(k)' = Chips(l, s)[RowOf(k)]
      BY <1>1, <3>1, HeldNowAndThen
    <3>3. Current(k) = psram[RowOf(k)]
      BY <2>5, HeldNowAndThen
    <3> QED BY <1>1, <1>8, <3>1, <3>2, <3>3, WriteBack
  <2> QED BY <2>3, <2>4, <2>5 DEF Resident
<1> QED BY <1>6, <1>7, <1>8
-----------------------------------------------------------------------------
(* Every step of the cache is a step of the RAM on the safe lanes. *)

LEMMA SafeMemType == TypeOK => SafeMem \in SafeRam!Content
<1> SUFFICES ASSUME TypeOK PROVE SafeMem \in SafeRam!Content
  OBVIOUS
<1>1. \A l \in Line : [o \in Safe |-> Current(l)[o]] \in [Safe -> Byte]
  BY CurrentType DEF Safe
<1> QED BY <1>1 DEF SafeMem, SafeRam!Content

LEMMA SafeMemThen ==
    ASSUME TypeOK'
    PROVE  /\ SafeMem' \in SafeRam!Content
           /\ \A l \in Line, o \in Safe : SafeMem'[l][o] = Current(l)'[o]
<1>1. (SafeMem \in SafeRam!Content)'
  BY SafeMemType, PTL
<1>2. SafeMem' \in SafeRam!Content
  BY <1>1 DEF SafeRam!Content
<1> QED BY <1>2 DEF SafeMem

LEMMA SafeMemNow ==
    \A l \in Line, o \in Safe : SafeMem[l][o] = Current(l)[o]
BY DEF SafeMem

(* What no lane of a line shows, the line does not show. *)
LEMMA SameOnSafe ==
    ASSUME TypeOK, TypeOK', NEW k \in Line,
           \A o \in Safe : Current(k)'[o] = Current(k)[o]
    PROVE  SafeMem'[k] = SafeMem[k]
<1>1. \A o \in Safe : SafeMem'[k][o] = SafeMem[k][o]
  BY SafeMemNow, SafeMemThen
<1>2. SafeMem[k] \in [Safe -> Byte] /\ SafeMem'[k] \in [Safe -> Byte]
  BY SafeMemType, SafeMemThen DEF SafeRam!Content
<1> QED BY <1>1, <1>2

LEMMA SafeInit == Init => SafeRam!Init
<1> SUFFICES ASSUME Init PROVE SafeRam!Init
  OBVIOUS
<1>1. SafeMem \in SafeRam!Content
  BY TypeInit, SafeMemType
<1>2. Seen(last) = SafeRam!NoCall
  <2>1. Onto([o \in {} |-> 0], Safe) = [o \in {} |-> 0]
    BY DEF Onto
  <2> QED BY <2>1 DEF Init, Seen, SafeRam!NoCall
<1>3. written = {}
  BY DEF Init
<1> QED BY <1>1, <1>2, <1>3 DEF SafeRam!Init

(* A read answers with the memory's bytes and changes no line that is      *)
(* alone.                                                                  *)
LEMMA ReadRefines ==
    ASSUME TypeOK, TypeOK', NEW l \in Line, NEW P \in Pieces,
           Called("read", l, [o \in P |-> Current(l)'[o]]),
           \A k \in Line, o \in Safe :
              SafeRam!Alone(k) => Current(k)'[o] = Current(k)[o]
    PROVE  SafeRam!Next
<1>1. P \cap Safe \in {Q \cap Safe : Q \in Pieces}
  OBVIOUS
<1>2. \A k \in Line : SafeRam!Alone(k) => SafeMem'[k] = SafeMem[k]
  BY SameOnSafe
<1>3. Seen(last)' = [op |-> "read", line |-> l,
                     bytes |-> [o \in P \cap Safe |-> SafeMem'[l][o]]]
  <2> DEFINE b == [o \in P |-> Current(l)'[o]]
  <2>1. \A o \in P \cap Safe : b[o] = SafeMem'[l][o]
    BY SafeMemThen
  <2>2. Safe \cap DOMAIN b = P \cap Safe
    OBVIOUS
  <2>3. Onto(b, Safe) = [o \in P \cap Safe |-> SafeMem'[l][o]]
    BY <2>1, <2>2 DEF Onto
  <2> QED BY <2>3 DEF Called, Seen
<1>4. written' = written
  BY DEF Called
<1>5. SafeRam!Read(l, P \cap Safe)
  BY <1>2, <1>3, <1>4, SafeMemThen DEF SafeRam!Read
<1> QED BY <1>1, <1>5 DEF SafeRam!Next

(* A write changes the lanes it names, of its line, and no line that is    *)
(* alone.                                                                  *)
LEMMA WriteRefines ==
    ASSUME TypeOK, TypeOK', NEW l \in Line, NEW P \in Pieces,
           NEW w \in [P -> Byte], Called("write", l, w),
           \A o \in Safe : IF o \in P THEN Current(l)'[o] = w[o]
                           ELSE SafeRam!Alone(l) =>
                                   Current(l)'[o] = Current(l)[o],
           \A k \in Line \ {l}, o \in Safe :
              SafeRam!Alone(k) => Current(k)'[o] = Current(k)[o]
    PROVE  SafeRam!Next
<1> DEFINE v == [o \in P \cap Safe |-> w[o]]
<1>1. P \cap Safe \in {Q \cap Safe : Q \in Pieces} /\ v \in [P \cap Safe -> Byte]
  OBVIOUS
<1>2. \A k \in Line \ {l} : SafeRam!Alone(k) => SafeMem'[k] = SafeMem[k]
  BY SameOnSafe
<1>3. \A o \in Safe : IF o \in DOMAIN v THEN SafeMem'[l][o] = v[o]
                      ELSE SafeRam!Alone(l) =>
                              SafeMem'[l][o] = SafeMem[l][o]
  BY SafeMemNow, SafeMemThen
<1>4. Seen(last)' = [op |-> "write", line |-> l, bytes |-> v]
  <2>1. Onto(w, Safe) = v
    BY DEF Onto
  <2> HIDE DEF v
  <2> QED BY <2>1 DEF Called, Seen
<1>5. written' = written \cup {l}
  BY DEF Called
<1>6. SafeRam!Write(l, v)
  <2> HIDE DEF v
  <2> QED BY <1>2, <1>3, <1>4, <1>5, SafeMemThen DEF SafeRam!Write
<1> QED BY <1>1, <1>6 DEF SafeRam!Next

LEMMA SafeNext ==
    ASSUME IInv, IInv', [Next]_vars
    PROVE  [SafeRam!Next]_(SafeRam!vars)
<1>0. TypeOK /\ TypeOK'
  BY DEF IInv
<1>1. ASSUME NEW l \in Line, NEW P \in Pieces, NEW t \in Way, ReadHit(l, t, P)
      PROVE  SafeRam!Next
  <2> DEFINE s == <<get_index(l), t>>
  <2>1. s \in Slot /\ Holds(s, l)
    BY <1>1, SlotType, HitHolds DEF ReadHit
  <2>2. /\ Called("read", l, [o \in P |-> data[s][o]])
        /\ UNCHANGED <<tags, data, psram>>
    BY <1>1 DEF ReadHit
  <2> HIDE DEF s
  <2>3. /\ \A k \in Line \ {l} : Current(k)' = Current(k)
        /\ Current(l) = data[s]
        /\ Current(l)' = data'[s]
    BY <2>1, <2>2, HitView
  <2>4. \A k \in Line, o \in Safe : Current(k)'[o] = Current(k)[o]
    BY <2>2, <2>3
  <2>5. Called("read", l, [o \in P |-> Current(l)'[o]])
    BY <2>2, <2>3
  <2> QED BY <1>0, <2>4, <2>5, ReadRefines
<1>2. ASSUME NEW l \in Line, NEW P \in Pieces, NEW t \in Way,
             NEW junk \in Byte, ReadMiss(l, t, P, junk)
      PROVE  SafeRam!Next
  <2> DEFINE s == <<get_index(l), t>>
  <2>1. /\ s \in Slot /\ Fill(l, s, FALSE)
        /\ Called("read", l, [o \in P |-> data'[s][o]])
        /\ \A o \in Safe : data'[s][o] = Chips(l, s)[RowOf(l)][o]
    BY <1>0, <1>2, ReadMissFills
  <2> HIDE DEF s
  <2>2. /\ \A k \in Line \ {l}, o \in Safe :
              SafeRam!Alone(k) => Current(k)'[o] = Current(k)[o]
        /\ Current(l)' = data'[s]
        /\ SafeRam!Alone(l) => Current(l) = Chips(l, s)[RowOf(l)]
    BY <2>1, MissView
  <2>3. \A k \in Line, o \in Safe :
           SafeRam!Alone(k) => Current(k)'[o] = Current(k)[o]
    BY <2>1, <2>2
  <2>4. Called("read", l, [o \in P |-> Current(l)'[o]])
    BY <2>1, <2>2
  <2> QED BY <1>0, <2>3, <2>4, ReadRefines
<1>3. ASSUME NEW l \in Line, NEW P \in Pieces, NEW t \in Way,
             NEW w \in [P -> Byte], WriteHit(l, t, w)
      PROVE  SafeRam!Next
  <2> DEFINE s == <<get_index(l), t>>
  <2>1. s \in Slot /\ Holds(s, l)
    BY <1>3, SlotType, HitHolds DEF WriteHit
  <2>2. /\ tags' = [tags EXCEPT ![s].dirty = TRUE]
        /\ data' = [data EXCEPT ![s] = memcpy(data[s], w)]
        /\ psram' = psram
        /\ Called("write", l, w)
    BY <1>3 DEF WriteHit
  <2> HIDE DEF s
  <2>3. \A x \in Slot : /\ tags'[x].valid = tags[x].valid
                        /\ tags'[x].line = tags[x].line
                        /\ x # s => data'[x] = data[x]
    BY <1>0, <2>1, <2>2 DEF TypeOK, Tag
  <2>4. data'[s] = memcpy(data[s], w)
    BY <1>0, <2>1, <2>2 DEF TypeOK
  <2>5. /\ \A k \in Line \ {l} : Current(k)' = Current(k)
        /\ Current(l) = data[s]
        /\ Current(l)' = data'[s]
    BY <2>1, <2>2, <2>3, HitView
  <2>6. \A o \in Safe :
           Current(l)'[o] = IF o \in P THEN w[o] ELSE Current(l)[o]
    BY <2>4, <2>5 DEF memcpy, Safe
  <2>7. \A k \in Line \ {l}, o \in Safe : Current(k)'[o] = Current(k)[o]
    BY <2>5
  <2> QED BY <1>0, <2>2, <2>6, <2>7, WriteRefines
<1>4. ASSUME NEW l \in Line, NEW P \in Pieces, NEW t \in Way,
             NEW w \in [P -> Byte], NEW junk \in Byte, WriteMiss(l, t, w, junk)
      PROVE  SafeRam!Next
  <2> DEFINE s == <<get_index(l), t>>
  <2>1. /\ s \in Slot /\ Fill(l, s, TRUE)
        /\ \A o \in Safe : data'[s][o] =
              IF o \in P THEN w[o] ELSE Chips(l, s)[RowOf(l)][o]
    <3>1. s \in Slot
      BY <1>0, <1>4, WriteMissFills
    <3>2. Fill(l, s, TRUE)
      BY <1>0, <1>4, WriteMissFills
    <3>3. \A o \in Safe : data'[s][o] =
             IF o \in DOMAIN w THEN w[o] ELSE Chips(l, s)[RowOf(l)][o]
      BY <1>0, <1>4, WriteMissFills
    <3> QED BY <3>1, <3>2, <3>3
  <2>2. Called("write", l, w)
    BY <1>4 DEF WriteMiss
  <2> HIDE DEF s
  <2>3. /\ \A k \in Line \ {l}, o \in Safe :
              SafeRam!Alone(k) => Current(k)'[o] = Current(k)[o]
        /\ Current(l)' = data'[s]
        /\ SafeRam!Alone(l) => Current(l) = Chips(l, s)[RowOf(l)]
    BY <2>1, MissView
  <2>4. \A o \in Safe : IF o \in P THEN Current(l)'[o] = w[o]
                        ELSE SafeRam!Alone(l) =>
                                Current(l)'[o] = Current(l)[o]
    BY <2>1, <2>3
  <2> QED BY <1>0, <2>2, <2>3, <2>4, WriteRefines
<1>5. CASE UNCHANGED vars
  BY <1>5 DEF vars, SafeRam!vars, SafeMem, Current, Holds, Seen
<1> QED BY <1>0, <1>1, <1>2, <1>3, <1>4, <1>5, Steps

(* The cache, the driver and the chips together are a RAM on the even      *)
(* lanes above the first: no write is lost or lands elsewhere, through any *)
(* sequence of hits, fills, evictions and write-backs, until a line is     *)
(* written that the chips keep in the same row.                            *)
THEOREM CacheRefinesRam == Spec => ImplementsSafeRam
<1>1. IInv /\ IInv' /\ [Next]_vars => [SafeRam!Next]_(SafeRam!vars)
  BY SafeNext
<1> QED BY <1>1, SafeInit, Inductive, PTL DEF Spec, ImplementsSafeRam, SafeRam!Spec

(* If the chips can hold every line of the memory map, each line has its   *)
(* own row, and all of the RAM can be used (psram.c:343-345).  Of 16 MB    *)
(* over chips of 8 MB this is false, as run cache_16mb shows.              *)
THEOREM EnoughChips ==
    ASSUME NumLines <= ChipLines
    PROVE  Spec => ImplementsWholeRam
<1>1. \A l \in Line : RowOf(l) = l
  <2> SUFFICES ASSUME NEW l \in Line PROVE RowOf(l) = l
    OBVIOUS
  <2>1. l \in 0 .. ChipLines - 1
    BY SizeAssumption DEF Line
  <2> QED BY <2>1, SizeAssumption, SmallMod DEF RowOf
<1>2. Rows = [l \in Line |-> l]
  BY <1>1 DEF Rows
<1>3. \A l \in Line : SafeRam!Alone(l) <=> WholeRam!Alone(l)
  BY <1>2 DEF SafeRam!Alone, WholeRam!Alone
<1>4. SafeRam!Init => WholeRam!Init
  BY DEF SafeRam!Init, WholeRam!Init, SafeRam!Content, WholeRam!Content,
         SafeRam!NoCall, WholeRam!NoCall
<1>5. \A l \in Line, P \in {Q \cap Safe : Q \in Pieces} :
         SafeRam!Read(l, P) => WholeRam!Read(l, P)
  BY <1>3 DEF SafeRam!Read, WholeRam!Read, SafeRam!Content, WholeRam!Content
<1>6. \A l \in Line, P \in {Q \cap Safe : Q \in Pieces} : \A w \in [P -> Byte] :
         SafeRam!Write(l, w) => WholeRam!Write(l, w)
  BY <1>3 DEF SafeRam!Write, WholeRam!Write, SafeRam!Content, WholeRam!Content
<1>7. [SafeRam!Next]_(SafeRam!vars) => [WholeRam!Next]_(WholeRam!vars)
  BY <1>5, <1>6 DEF SafeRam!Next, WholeRam!Next, SafeRam!vars, WholeRam!vars
<1> QED BY <1>4, <1>7, CacheRefinesRam, PTL
        DEF ImplementsSafeRam, ImplementsWholeRam, SafeRam!Spec, WholeRam!Spec
=============================================================================
