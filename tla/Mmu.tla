-------------------------------- MODULE Mmu --------------------------------
(***************************************************************************)
(* The instruction cache of the emulator (psram/icache.c) on top of the    *)
(* translation of module TlbHash.  It is looked up by virtual address      *)
(* alone, so it must forget what it holds whenever a translation changes.  *)
(*                                                                         *)
(* One set of it is modelled: the set of an address is a part of its       *)
(* offset in the page, so the pages of any one set compete for its ways    *)
(* and sets do not interact.  A page stands for its line in that set.      *)
(***************************************************************************)
EXTENDS TlbHash

CONSTANTS Way,   \* ICACHE_NUM_WAYS of them
          Hole   \* the frames where memAccess finds nothing to execute

(* An empty way holds 0xffffffff, which is no page. *)
ASSUME MmuAssumption == Way # {} /\ Hole \subseteq Frame /\ None \notin Page

VARIABLE icache  \* what each way holds: a page, and the frame it came from

mmuVars == <<tlb, entryHi, entryLo, index, shown, hash, icache>>

Empty == [page |-> None, frame |-> None]
Line == [page : Page, frame : Frame] \cup {Empty}
-----------------------------------------------------------------------------
(* cpuIcacheFlushEntire. *)
Flush == icache' = [w \in Way |-> Empty]

(* Mutant: the page is compared, not the address space. *)
FlushIfAsidChanged_page ==
    IF entryHi'.page # entryHi.page THEN Flush ELSE UNCHANGED icache

(* cpuPrvMaybeAsidChanded. *)
FlushIfAsidChanged ==
    IF entryHi'.asid # entryHi.asid THEN Flush ELSE UNCHANGED icache

Holding(page) == {w \in Way : icache[w].page = page}

(* Hit: neither the TLB nor the mode is asked. *)
FetchHit(page, user) ==
    /\ \E w \in Holding(page) :
          shown' = Show(Reached(icache[w].frame), page, "fetch", user)
    /\ UNCHANGED <<tlb, entryHi, entryLo, index, hash, icache>>

(* Mutant: the line is filled even when there was nothing to fill it with. *)
Fills_always == TRUE

(* The line could be translated and read. *)
Fills == shown'.kind = "frame" /\ shown'.of \notin Hole

(* Miss: the way is picked at random. *)
FetchMiss(page, user) ==
    /\ Holding(page) = {}
    /\ HashTranslate(page, "fetch", user)
    /\ IF Fills
         THEN \E w \in Way :
                icache' = [icache EXCEPT
                             ![w] = [page |-> page, frame |-> shown'.of]]
         ELSE UNCHANGED icache

(* cpuPrvDataAccess as far as the translation: a store made while Status   *)
(* isolates the cache (ISC) empties it.  For a load it makes no difference. *)
DataAccess(page, op, user, isolated) ==
    /\ op # "fetch"
    /\ HashTranslate(page, op, user)
    /\ IF isolated /\ op = "store" /\ shown'.kind = "frame"
         THEN Flush ELSE UNCHANGED icache

(* Mutant: the random write keeps the cache. *)
MmuTlbwr_keeps == HashTlbwr /\ UNCHANGED icache

MmuTlbwi == HashTlbwi /\ Flush
MmuTlbwr == HashTlbwr /\ Flush
MmuTlbr == HashTlbr /\ FlushIfAsidChanged
MmuTlbp == HashTlbp /\ UNCHANGED icache
MmuSetIndex == SetIndexReg /\ UNCHANGED icache
MmuSetEntryHi == SetEntryHiReg /\ FlushIfAsidChanged
MmuSetEntryLo == SetEntryLoReg /\ UNCHANGED icache

MmuInit == HashInit /\ icache = [w \in Way |-> Empty]

MmuNext ==
    \/ \E page \in Page, user \in BOOLEAN :
          \/ FetchHit(page, user)
          \/ FetchMiss(page, user)
    \/ \E page \in Page, op \in Op, user \in BOOLEAN :
          \E isolated \in {FALSE, op = "store"} :
             DataAccess(page, op, user, isolated)
    \/ MmuTlbwi \/ MmuTlbwr \/ MmuTlbr \/ MmuTlbp
    \/ MmuSetIndex \/ MmuSetEntryHi \/ MmuSetEntryLo

MmuSpec == MmuInit /\ [][MmuNext]_mmuVars
-----------------------------------------------------------------------------
MmuTypeOK == HashTypeOK /\ icache \in [Way -> Line]

(* An instruction comes from where the processor would fetch it now: a     *)
(* cached line of a mapped page was read from the frame that a valid       *)
(* matching entry names, in the address space that runs now                *)
(* (icache.c:39-86, cpu.c:571-604).                                        *)
CachedIsMapped ==
    \A w \in Way :
       icache[w] # Empty =>
          cpuPrvMemTranslate(Search(icache[w].page), icache[w].page, FALSE,
                             FALSE) = Reached(icache[w].frame)
=============================================================================
