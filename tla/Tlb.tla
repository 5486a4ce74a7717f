-------------------------------- MODULE Tlb --------------------------------
(***************************************************************************)
(* What the address translation of the emulated processor promises         *)
(* (emulator/cpu/cpu.c), however the TLB is searched: the TLB instructions *)
(* and the registers they work on, and the translation of an access.  A    *)
(* search finds some slot that matches if there is one.                    *)
(*                                                                         *)
(* An address is its page; only core 1 runs this code and a call is one    *)
(* step.  Misaligned accesses and the size of an access are left out.      *)
(***************************************************************************)
EXTENDS Integers

CONSTANTS NumEntries,  \* EMU_NUM_TLB_ENTRIES: 64
          NumWired,    \* EMU_NUM_WIRED_TLB_ENTRIES: 8
          User,        \* the pages of kuseg
          Kernel,      \* the mapped pages of the kernel, kseg2 and kseg3
          Direct,      \* the pages of kseg0 and kseg1
          Page0,       \* virtual page 0
          ResetPage,   \* 0x80000000
          Asid, Asid0, \* address spaces, and the one numbered 0
          Frame,       \* physical pages
          Frame0,      \* physical page 0
          DirectFrame, \* where the direct pages lie
          Words        \* the sets of flags the machine writes to EntryLo

None == -1
Slot == 0 .. NumEntries - 1
Page == User \cup Kernel \cup Direct
Flag == {"D", "V", "G"}

ASSUME TlbAssumption ==
    /\ NumEntries \in Nat
    /\ NumWired \in 0 .. NumEntries - 1
    /\ Page0 \in User
    /\ ResetPage \in Direct
    /\ Direct \cap (User \cup Kernel) = {}
    /\ User \cap Kernel = {}
    /\ Asid0 \in Asid
    /\ Frame0 \in Frame
    /\ DirectFrame \in [Direct -> Frame]
    /\ Words \subseteq SUBSET Flag

VARIABLES tlb,      \* the entries
          entryHi,  \* CP0 EntryHi: a page and the current address space
          entryLo,  \* CP0 EntryLo: a frame and its flags
          index,    \* CP0 Index: a slot, or None after a probe that failed
          shown     \* what the last call answered, and to whom

tlbVars == <<tlb, entryHi, entryLo, index, shown>>

Hi == [page : Page, asid : Asid]
Lo == [frame : Frame, flags : Words \cup {{}}]
Entry == [hi : Hi, lo : Lo]

Nothing == [tried |-> "none", kind |-> "nothing", of |-> None]
-----------------------------------------------------------------------------
(* What makes cpuPrvTlbHashSearch stop at an entry.                        *)
Matches(e, page, asid) ==
    e.hi.page = page /\ (e.hi.asid = asid \/ "G" \in e.lo.flags)

Found(page) == {i \in Slot : Matches(tlb[i], page, entryHi.asid)}

(* The answers a search may give. *)
Answers(page) == IF Found(page) = {} THEN {None} ELSE Found(page)

(* The user may only use kuseg. *)
Denied(page, user) == user /\ page \notin User

LookedUp(page, user) == ~ Denied(page, user) /\ page \notin Direct

Op == {"fetch", "load", "store"}

Reached(frame) == [kind |-> "frame", of |-> frame]

(* An exception with its code and its vector. *)
Exception(code, vector) == [kind |-> code, of |-> vector]

RefillVector(page) == IF page \in User THEN "refill" ELSE "general"

(* The exceptions of an access to memory as cpu.c:172-209 lists them, given *)
(* the slot that matches.                                                  *)
AddressError(op) == Exception(IF op = "store" THEN "AdES" ELSE "AdEL", "general")

TlbRefill(page, op) ==
    Exception(IF op = "store" THEN "TLBS" ELSE "TLBL", RefillVector(page))

TlbInvalid(op) == Exception(IF op = "store" THEN "TLBS" ELSE "TLBL", "general")

TlbModified == Exception("Mod", "general")

Mapped(lo, op) ==
    IF "V" \notin lo.flags THEN TlbInvalid(op)
    ELSE IF op = "store" /\ "D" \notin lo.flags THEN TlbModified
    ELSE Reached(lo.frame)

(* The answer that cpu.c:172-209 lists for an access. *)
Listed(i, page, op, user) ==
    IF Denied(page, user) THEN AddressError(op)
    ELSE IF page \in Direct THEN Reached(DirectFrame[page])
    ELSE IF i = None THEN TlbRefill(page, op)
    ELSE Mapped(tlb[i].lo, op)

(* The answers an access may get.  Of what the user may not access the     *)
(* code keeps the list for loads alone: the address error of a store has   *)
(* the code of a load (664, 674), and a fetch may get the frame that the   *)
(* kernel would fetch from (icache.c:58).                                  *)
Translations(i, page, op, user) ==
    IF ~ Denied(page, user) \/ op = "load" THEN {Listed(i, page, op, user)}
    ELSE IF op = "store" THEN {AddressError("load")}
    ELSE {AddressError("fetch")} \cup
         {a \in {Listed(i, page, "fetch", FALSE)} : a.kind = "frame"}

(* An answer is shown with what the user tried, if the mode forbids it.    *)
Show(answer, page, op, user) ==
    [tried |-> IF Denied(page, user) THEN op ELSE "none",
     kind |-> answer.kind, of |-> answer.of]

(* An access and its answer.  A TLB exception leaves the page in EntryHi,  *)
(* in the same address space.                                              *)
Translate(answer, page, op, user) ==
    /\ shown' = Show(answer, page, op, user)
    /\ entryHi' = IF LookedUp(page, user) /\ answer.kind # "frame"
                    THEN [entryHi EXCEPT !.page = page] ELSE entryHi
    /\ UNCHANGED <<tlb, entryLo, index>>
-----------------------------------------------------------------------------
(* A failed probe leaves 0x80000000 in Index, whose slot field is 0.       *)
IndexSlot == IF index = None THEN 0 ELSE index

(* cpuPrvTlbWrite. *)
TlbWrite(i) ==
    /\ shown' = Nothing
    /\ tlb' = [tlb EXCEPT ![i] = [hi |-> entryHi, lo |-> entryLo]]
    /\ UNCHANGED <<entryHi, entryLo, index>>

(* The slots cpuPrvRefreshRandom may name. *)
Unwired == NumWired .. NumEntries - 1

Tlbr ==
    /\ shown' = Nothing
    /\ entryHi' = tlb[IndexSlot].hi
    /\ entryLo' = tlb[IndexSlot].lo
    /\ UNCHANGED <<tlb, index>>

(* cpuPrvTlbp, given the answer of the search. *)
Tlbp(i) ==
    /\ shown' = Nothing
    /\ index' = i
    /\ UNCHANGED <<tlb, entryHi, entryLo>>

SetIndex(i) ==
    /\ shown' = Nothing
    /\ index' = i
    /\ UNCHANGED <<tlb, entryHi, entryLo>>

SetEntryHi(hi) ==
    /\ shown' = Nothing
    /\ entryHi' = hi
    /\ UNCHANGED <<tlb, entryLo, index>>

SetEntryLo(lo) ==
    /\ shown' = Nothing
    /\ entryLo' = lo
    /\ UNCHANGED <<tlb, entryHi, index>>

(* cpuInit. *)
Init ==
    LET zero == [frame |-> Frame0, flags |-> {}]
    IN  /\ tlb = [i \in Slot |->
                    [hi |-> [page |-> ResetPage, asid |-> Asid0], lo |-> zero]]
        /\ entryHi = [page |-> Page0, asid |-> Asid0]
        /\ entryLo = zero
        /\ index = 0
        /\ shown = Nothing

Access ==
    /\ UNCHANGED <<tlb, entryLo, index>>
    /\ \E page \in Page : \E i \in Answers(page) :
          \E op \in Op, user \in BOOLEAN :
             \E answer \in Translations(i, page, op, user) :
                Translate(answer, page, op, user)

Next ==
    \/ TlbWrite(IndexSlot)
    \/ \E i \in Unwired : TlbWrite(i)
    \/ Tlbr
    \/ Access
    \/ \E i \in Answers(entryHi.page) : Tlbp(i)
    \/ \E i \in Slot : SetIndex(i)
    \/ \E hi \in Hi : SetEntryHi(hi)
    \/ \E f \in Frame, flags \in Words :
          SetEntryLo([frame |-> f, flags |-> flags])

TlbSpec == Init /\ [][Next]_tlbVars
=============================================================================
