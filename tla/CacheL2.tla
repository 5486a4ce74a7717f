------------------------------ MODULE CacheL2 ------------------------------
(***************************************************************************)
(* The write-back cache in front of the PSRAM chips (psram/cache_l2.c)     *)
(* with the driver that fills its slots and takes its victims              *)
(* (accessPSRAM of psram/psram.c).  Only core 1 (the emulator) calls them, *)
(* so an operation is one step.                                            *)
(*                                                                         *)
(* An address is a line and the lanes touched in it: the code never splits *)
(* an access at the end of a line and its callers never cross one.  The    *)
(* statistics (accessed, hit) are left out.                                *)
(***************************************************************************)
EXTENDS Integers

CONSTANTS NumSets,    \* rows of tags[][2]: 32 in the code
          NumLines,   \* lines the machine may address: EMULATOR_RAM_MB
          ChipLines,  \* lines the chips can hold: PSRAM_CHIP_SIZE
          LineSize,   \* bytes in a cache line: 64 in the code
          Byte,       \* what a byte may hold
          Junk,       \* what the stack past accessPSRAM's buffer may hold
          PowerOn,    \* what a chip's line may hold at power on
          Pieces      \* the sets of lanes one access may touch

Lane  == 0 .. LineSize - 1
Line  == 0 .. NumLines - 1
Index == 0 .. NumSets - 1
Way   == {0, 1}
Slot  == Index \X Way
Row   == 0 .. ChipLines - 1

ASSUME SizeAssumption ==
    /\ NumSets \in Nat \ {0}
    /\ NumLines \in Nat \ {0}
    /\ ChipLines \in Nat \ {0}
    /\ LineSize \in Nat \ {0} /\ LineSize % 2 = 0
ASSUME ByteAssumption ==
    /\ 0 \in Byte
    /\ Junk \subseteq Byte
    /\ PowerOn \subseteq [Lane -> Byte]
    /\ Pieces \subseteq SUBSET Lane

VARIABLES tags,    \* tags[s]: line, VALID and DIRTY bits of slot s
          lru,     \* lru[i]: the way of set i used last (bit LRU of tags[i][1])
          data,    \* cachelines[s].data
          psram,   \* what the two chips hold
          last,    \* the last call: its line and the bytes of its buffer
          written  \* history: the lines that have been written

vars == <<tags, lru, data, psram, last, written>>

Bytes == UNION {[P -> Byte] : P \in Pieces \cup {{}}}

Called(op, l, bytes) ==
    /\ last' = [op |-> op, line |-> l, bytes |-> bytes]
    /\ written' = IF op = "write" THEN written \cup {l} ELSE written

Tag == [line : Line, valid : BOOLEAN, dirty : BOOLEAN]
-----------------------------------------------------------------------------
(* The pieces of an address, and where the driver takes a line.            *)

get_index(l) == l % NumSets

(* Mutant: a tag that lost its lowest bit. *)
TagOf_narrow(l) == l \div (2 * NumSets)

TagOf(l) == l \div NumSets

(* 24 address bits leave the driver; a chip decodes those it has. *)
RowOf(l) == l % ChipLines

(* The buffer accessPSRAM hands back: every 16 bit cell holds an even and  *)
(* an odd byte, the odd one is shifted out of reach, and the loop runs one *)
(* cell past the end of both buffers.                                      *)
Received(row, junk) ==
    [o \in 0 .. LineSize + 1 |-> IF o % 2 = 1 THEN 0
                                 ELSE IF o < LineSize THEN row[o]
                                 ELSE junk]

(* cachelines[][2] is one array: slot x follows slot s in it. *)
Follows(x, s) == 2 * x[1] + x[2] = 2 * s[1] + s[2] + 1

(* What a fill of slot s may find behind the buffer.  The loop of a write  *)
(* runs one cell too far as well: it stores there what the slot after s    *)
(* begins with, and the fill that follows a write-back uses the same       *)
(* stack.  That nothing needs the cell is assumed (README, 3).             *)
Behind(s) ==
    Junk \cup IF tags[s].dirty
               THEN {data[x][0] : x \in {y \in Slot : Follows(y, s)}}
               ELSE {}

(* psram_read into slot s: what does not fit spills into the next slot. *)
psram_read(l, s, chips, junk) ==
    LET b == Received(chips[RowOf(l)], junk)
    IN  [x \in Slot |->
           IF x = s THEN [o \in Lane |-> b[o]]
           ELSE IF Follows(x, s)
                THEN [o \in Lane |-> IF o < 2 THEN b[LineSize + o]
                                              ELSE data[x][o]]
                ELSE data[x]]

(* psram_write of a slot that is DIRTY. *)
psram_write(s) ==
    IF tags[s].dirty
      THEN [psram EXCEPT ![RowOf(tags[s].line)] = data[s]]
      ELSE psram

(* memcpy of the bytes w into a line. *)
memcpy(row, w) == [o \in Lane |-> IF o \in DOMAIN w THEN w[o] ELSE row[o]]
-----------------------------------------------------------------------------
(* The search: way 0, then way 1. *)

Matches(s, l) == tags[s].valid /\ TagOf(tags[s].line) = TagOf(l)

Hit(l, t) == /\ Matches(<<get_index(l), t>>, l)
             /\ t = 1 => ~ Matches(<<get_index(l), 0>>, l)

(* Mutant: the way used last makes room. *)
Victim_last(l) == IF tags[<<get_index(l), 1>>].valid THEN lru[get_index(l)]
                                                     ELSE 1

(* On a miss way 1 decides: while it is empty it is filled, then the way   *)
(* that was not used last makes room.                                      *)
Victim(l) == IF tags[<<get_index(l), 1>>].valid THEN 1 - lru[get_index(l)]
                                                ELSE 1

Miss(l, t) == /\ \A u \in Way : ~ Matches(<<get_index(l), u>>, l)
              /\ t = Victim(l)

(* The victim's line goes back to the chips before the new one comes in. *)
Chips(l, s) == IF tags[<<get_index(l), 1>>].valid THEN psram_write(s)
                                                   ELSE psram

Used(l, t) == lru' = [lru EXCEPT ![get_index(l)] = t]

(* Mutant: a hit does not set DIRTY. *)
WriteHit_clean(l, t, w) ==
    LET s == <<get_index(l), t>>
    IN  /\ Hit(l, t)
        /\ data' = [data EXCEPT ![s] = memcpy(data[s], w)]
        /\ Used(l, t)
        /\ Called("write", l, w)
        /\ UNCHANGED <<tags, psram>>

WriteHit(l, t, w) ==
    LET s == <<get_index(l), t>>
    IN  /\ Hit(l, t)
        /\ data' = [data EXCEPT ![s] = memcpy(data[s], w)]
        /\ tags' = [tags EXCEPT ![s].dirty = TRUE]
        /\ Used(l, t)
        /\ Called("write", l, w)
        /\ UNCHANGED psram

WriteMiss(l, t, w, junk) ==
    LET s == <<get_index(l), t>>
        d == psram_read(l, s, Chips(l, s), junk)
    IN  /\ Miss(l, t)
        /\ psram' = Chips(l, s)
        /\ data' = [d EXCEPT ![s] = memcpy(d[s], w)]
        /\ tags' = [tags EXCEPT ![s] =
                      [line |-> l, valid |-> TRUE, dirty |-> TRUE]]
        /\ Used(l, t)
        /\ Called("write", l, w)

ReadHit(l, t, P) ==
    /\ Hit(l, t)
    /\ Called("read", l, [o \in P |-> data[<<get_index(l), t>>][o]])
    /\ Used(l, t)
    /\ UNCHANGED <<tags, data, psram>>

ReadMiss(l, t, P, junk) ==
    LET s == <<get_index(l), t>>
        d == psram_read(l, s, Chips(l, s), junk)
    IN  /\ Miss(l, t)
        /\ psram' = Chips(l, s)
        /\ data' = d
        /\ tags' = [tags EXCEPT ![s] =
                      [line |-> l, valid |-> TRUE, dirty |-> FALSE]]
        /\ Used(l, t)
        /\ Called("read", l, [o \in P |-> d[s][o]])

cache_write_l2(l, w) ==
    \E t \in Way : \/ WriteHit(l, t, w)
                   \/ \E junk \in Behind(<<get_index(l), t>>) :
                         WriteMiss(l, t, w, junk)

cache_read_l2(l, P) ==
    \E t \in Way : \/ ReadHit(l, t, P)
                   \/ \E junk \in Behind(<<get_index(l), t>>) :
                         ReadMiss(l, t, P, junk)

(* Static storage starts at zero, the chips hold anything. *)
Init ==
    /\ tags = [s \in Slot |-> [line |-> 0, valid |-> FALSE, dirty |-> FALSE]]
    /\ lru = [i \in Index |-> 0]
    /\ data = [s \in Slot |-> [o \in Lane |-> 0]]
    /\ psram \in [Row -> PowerOn]
    /\ last = [op |-> "none", line |-> 0, bytes |-> [o \in {} |-> 0]]
    /\ written = {}

Next == \E l \in Line, P \in Pieces :
           \/ cache_read_l2(l, P)
           \/ \E w \in [P -> Byte] : cache_write_l2(l, w)

Spec == Init /\ [][Next]_vars
-----------------------------------------------------------------------------
(* The state has the shape the C declarations give it, and the buffer of a *)
(* call is as long as the access.                                          *)
TypeOK ==
    /\ tags \in [Slot -> Tag]
    /\ lru \in [Index -> Way]
    /\ data \in [Slot -> [Lane -> Byte]]
    /\ psram \in [Row -> [Lane -> Byte]]
    /\ last \in [op : {"none", "read", "write"}, line : Line, bytes : Bytes]
    /\ written \subseteq Line

Holds(s, l) == tags[s].valid /\ tags[s].line = l

Resident(l) == \E s \in Slot : Holds(s, l)

(* A line is never in both ways of its set: a second copy would take       *)
(* writes that the first one never sees (cache_l2.c:63-103).               *)
NoAlias == \A s, r \in Slot :
              (tags[s].valid /\ tags[r].valid /\ tags[s].line = tags[r].line)
                 => s = r

(* The line of a set that was used last survives the next access, whatever *)
(* it is: the victim is the other way (cache_l2.c:80, 105-106).            *)
LastUsedStays ==
    [][\A i \in Index : LET s == <<i, lru[i]>>
                        IN  tags[s].valid =>
                              /\ tags'[s].valid
                              /\ tags'[s].line = tags[s].line]_vars
-----------------------------------------------------------------------------
(* The lanes on which the driver is a memory: even ones, whose byte        *)
(* survives accessPSRAM, above the two that a fill of the previous slot    *)
(* overwrites.                                                             *)
Safe == {o \in Lane : o % 2 = 0 /\ o >= 2}

(* The line as the machine sees it: the slot that holds it, else the chips. *)
Current(l) == LET i == get_index(l)
              IN  IF Holds(<<i, 0>>, l) THEN data[<<i, 0>>]
                  ELSE IF Holds(<<i, 1>>, l) THEN data[<<i, 1>>]
                  ELSE psram[RowOf(l)]

SafeMem == [l \in Line |-> [o \in Safe |-> Current(l)[o]]]

Onto(f, S) == [o \in S \cap DOMAIN f |-> f[o]]

Seen(call) == [op |-> call.op, line |-> call.line,
               bytes |-> Onto(call.bytes, Safe)]

(* Two lines have a row of the chips in common: 16 MB over 8 MB.            *)
Rows == [l \in Line |-> RowOf(l)]

SafeRam == INSTANCE Ram WITH
    Lane   <- Safe,
    Pieces <- {P \cap Safe : P \in Pieces},
    Place  <- Rows,
    mem    <- SafeMem,
    last   <- Seen(last)

(* On the safe lanes the cache and its chips are a RAM, as far as the      *)
(* chips have room: no write is lost by an eviction, a fill or a hit, and  *)
(* a line is disturbed by no other but one whose row is the same and that  *)
(* has been written (psram.c:343-348).                                     *)
ImplementsSafeRam == SafeRam!Spec

WholeRam == INSTANCE Ram WITH
    Lane   <- Safe,
    Pieces <- {P \cap Safe : P \in Pieces},
    Place  <- [l \in Line |-> l],
    mem    <- SafeMem,
    last   <- Seen(last)

(* All of the RAM that is configured can be used, every line on its own:   *)
(* EMULATOR_RAM_MB is "RAM size in megabytes" (umips_config.h:8-9).        *)
ImplementsWholeRam == WholeRam!Spec

AllRam == INSTANCE Ram WITH
    Place <- [l \in Line |-> l],
    mem   <- [l \in Line |-> Current(l)]

(* The same promise for every lane, as the self test of initPSRAM takes it *)
(* for granted: what is written is read back (psram.c:313-323).            *)
ImplementsRam == AllRam!Spec

(* What makes the cache work, as an inductive invariant: a slot holds      *)
(* lines of its own set only, the two ways differ, only slots written to   *)
(* are dirty, and what a clean slot holds the chips hold too, unless       *)
(* another line of its row has been written.                               *)
SlotInv(s) ==
    /\ tags[s].dirty => tags[s].valid /\ tags[s].line \in written
    /\ tags[s].valid => get_index(tags[s].line) = s[1]
    /\ (tags[s].valid /\ ~ tags[s].dirty /\ SafeRam!Alone(tags[s].line)) =>
          \A o \in Safe : data[s][o] = psram[RowOf(tags[s].line)][o]

WaysDiffer == \A i \in Index :
    (tags[<<i, 0>>].valid /\ tags[<<i, 1>>].valid) =>
       tags[<<i, 0>>].line # tags[<<i, 1>>].line

IInv == TypeOK /\ (\A s \in Slot : SlotInv(s)) /\ WaysDiffer
=============================================================================
