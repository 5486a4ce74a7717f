-------------------------------- MODULE Ram --------------------------------
(***************************************************************************)
(* What the emulated machine may assume of its RAM: Lines of byte lanes    *)
(* that can be read and written in pieces.  A read answers with what the   *)
(* last write of every lane left there.  It is the promise that            *)
(* readPSRAM / writePSRAM (psram/psram.c) make to the emulator's           *)
(* accessRam; module CacheL2 is shown to implement it.                     *)
(*                                                                         *)
(* Lines may have their place in common.  A line keeps what it holds until *)
(* another line of its place is written, and nothing is promised of it     *)
(* after that.  Where every line has a place of its own this is a RAM like *)
(* any other.                                                              *)
(***************************************************************************)
CONSTANTS Line,     \* the lines of RAM
          Lane,     \* the byte positions of a line
          Byte,     \* what a byte may hold
          Pieces,   \* the sets of lanes one access may touch
          Place     \* Place[l]: where line l is kept

VARIABLES mem,      \* mem[l][o]: the byte at lane o of line l
          written,  \* the lines that have been written
          last      \* the last call: what was asked, and the bytes that moved

vars == <<mem, written, last>>

Content == [Line -> [Lane -> Byte]]

Bytes == UNION {[P -> Byte] : P \in Pieces \cup {{}}}

NoCall == [op |-> "none", line |-> 0, bytes |-> [o \in {} |-> 0]]

Call == [op : {"read", "write"}, line : Line, bytes : Bytes] \cup {NoCall}

TypeOK == mem \in Content /\ written \in SUBSET Line /\ last \in Call

(* No other line has been written where line l is kept. *)
Alone(l) == \A k \in written \ {l} : Place[k] # Place[l]

Init == mem \in Content /\ written = {} /\ last = NoCall

Read(l, P) ==
    /\ last' = [op |-> "read", line |-> l, bytes |-> [o \in P |-> mem'[l][o]]]
    /\ UNCHANGED written
    /\ mem' \in Content
    /\ \A k \in Line : Alone(k) => mem'[k] = mem[k]

Write(l, w) ==
    /\ last' = [op |-> "write", line |-> l, bytes |-> w]
    /\ written' = written \cup {l}
    /\ mem' \in Content
    /\ \A k \in Line \ {l} : Alone(k) => mem'[k] = mem[k]
    /\ \A o \in Lane : IF o \in DOMAIN w THEN mem'[l][o] = w[o]
                       ELSE Alone(l) => mem'[l][o] = mem[l][o]

Next == \E l \in Line, P \in Pieces : \/ Read(l, P)
                                      \/ \E w \in [P -> Byte] : Write(l, w)

Spec == Init /\ [][Next]_vars
=============================================================================
