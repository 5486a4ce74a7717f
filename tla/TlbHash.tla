------------------------------ MODULE TlbHash ------------------------------
(***************************************************************************)
(* The TLB as emulator/cpu/cpu.c searches it: the entries of each hash     *)
(* bucket form a doubly linked list through prevIdx and nextIdx, and a     *)
(* write moves an entry from one list to the head of another.  It          *)
(* implements Tlb, whose variables and whose handling of entries and       *)
(* registers it shares.                                                    *)
(***************************************************************************)
EXTENDS Tlb

CONSTANTS Bucket,   \* 0 .. TLB_HASH_ENTRIES - 1
          TLB_HASH  \* the bucket of a page

ASSUME HashAssumption == TLB_HASH \in [Page -> Bucket]

VARIABLE hash  \* prevIdx and nextIdx of every entry, and tlbHash: the heads

hashVars == <<tlb, entryHi, entryLo, index, shown, hash>>

Idx == Slot \cup {None}

Lists == [prev : [Slot -> Idx], next : [Slot -> Idx], head : [Bucket -> Idx]]
-----------------------------------------------------------------------------
(* cpuPrvTlbHashRemove, where page is the one the entry holds. *)
HashRemove(h, i, page) ==
    LET before == h.prev[i]
        after  == h.next[i]
    IN  [prev |-> IF after = None THEN h.prev
                  ELSE [h.prev EXCEPT ![after] = before],
         next |-> IF before = None THEN h.next
                  ELSE [h.next EXCEPT ![before] = after],
         head |-> IF before # None THEN h.head
                  ELSE [h.head EXCEPT ![TLB_HASH[page]] = after]]

(* cpuPrvTlbHashAdd. *)
HashAdd(h, i, page) ==
    LET first == h.head[TLB_HASH[page]]
        alone == [h.prev EXCEPT ![i] = None]
    IN  [prev |-> IF first = None THEN alone ELSE [alone EXCEPT ![first] = i],
         next |-> [h.next EXCEPT ![i] = first],
         head |-> [h.head EXCEPT ![TLB_HASH[page]] = i]]

(* Mutant: the new page names the list the entry is taken from. *)
Rehash_late(i) == HashAdd(HashRemove(hash, i, entryHi.page), i, entryHi.page)

(* The lists after cpuPrvTlbWrite: out under the old page, in under the    *)
(* new.                                                                    *)
Rehash(i) == HashAdd(HashRemove(hash, i, tlb[i].hi.page), i, entryHi.page)

(* The entries of a bucket in the order the loop of cpuPrvTlbHashSearch    *)
(* meets them, None after the last.                                        *)
Walk(h, page) ==
    LET w[k \in 0 .. NumEntries] ==
          IF k = 0 THEN h.head[TLB_HASH[page]]
          ELSE LET idx == w[k - 1]
               IN  IF idx = None THEN None ELSE h.next[idx]
    IN  w

(* cpuPrvTlbHashSearch: the first of them that matches. *)
SearchIn(entries, h, asid, page) ==
    LET w == Walk(h, page)
        Stops(k) == w[k] \in Slot /\ Matches(entries[w[k]], page, asid)
        First(k) == Stops(k) /\ \A j \in 0 .. k - 1 : ~ Stops(j)
    IN  IF \E k \in 0 .. NumEntries : First(k)
          THEN w[CHOOSE k \in 0 .. NumEntries : First(k)]
          ELSE None

Search(page) == SearchIn(tlb, hash, entryHi.asid, page)
-----------------------------------------------------------------------------
(* cpuPrvMemTranslate, given the slot that was found.  An access that is    *)
(* denied counts as a load whatever it is.                                 *)
cpuPrvMemTranslate(i, page, write, user) ==
    LET code == IF write THEN "TLBS" ELSE "TLBL"
    IN  IF Denied(page, user) THEN Exception("AdEL", "general")
        ELSE IF page \in Direct THEN Reached(DirectFrame[page])
        ELSE IF i = None THEN Exception(code, RefillVector(page))
        ELSE IF "V" \notin tlb[i].lo.flags THEN Exception(code, "general")
        ELSE IF write /\ "D" \notin tlb[i].lo.flags
               THEN Exception("Mod", "general")
        ELSE Reached(tlb[i].lo.frame)

HashTranslate(page, op, user) ==
    /\ Translate(cpuPrvMemTranslate(Search(page), page, op = "store", user),
                 page, op, user)
    /\ UNCHANGED hash

HashWrite(i) == TlbWrite(i) /\ hash' = Rehash(i)

HashTlbwi == HashWrite(IndexSlot)

HashTlbwr == \E i \in Unwired : HashWrite(i)

HashTlbr == Tlbr /\ UNCHANGED hash

HashTlbp == Tlbp(Search(entryHi.page)) /\ UNCHANGED hash

(* MTC0 to Index, EntryHi and EntryLo. *)
SetIndexReg == \E i \in Slot : SetIndex(i) /\ UNCHANGED hash

SetEntryHiReg == \E hi \in Hi : SetEntryHi(hi) /\ UNCHANGED hash

SetEntryLoReg == \E f \in Frame, flags \in Words :
                    /\ SetEntryLo([frame |-> f, flags |-> flags])
                    /\ UNCHANGED hash

(* All entries start in one list, "having these in a chain simplifies      *)
(* removal" (cpu.c:1844).                                                  *)
HashInit ==
    /\ Init
    /\ hash = [prev |-> [i \in Slot |-> i - 1],
               next |-> [i \in Slot |-> IF i = NumEntries - 1 THEN None
                                                              ELSE i + 1],
               head |-> [b \in Bucket |-> IF b = TLB_HASH[ResetPage] THEN 0
                                                                   ELSE None]]

HashNext ==
    \/ \E page \in Page, op \in Op, user \in BOOLEAN :
          HashTranslate(page, op, user)
    \/ HashTlbwi \/ HashTlbwr \/ HashTlbr \/ HashTlbp
    \/ SetIndexReg \/ SetEntryHiReg \/ SetEntryLoReg

HashSpec == HashInit /\ [][HashNext]_hashVars
-----------------------------------------------------------------------------
HashTypeOK ==
    /\ tlb \in [Slot -> Entry] /\ entryHi \in Hi /\ entryLo \in Lo
    /\ index \in Idx
    /\ hash \in Lists

(* prevIdx and nextIdx are inverse, and an entry without a predecessor is  *)
(* the head of the list of its page, so that removing an entry mends       *)
(* exactly the list it is in (cpu.c:526-548).                              *)
Linked ==
    /\ \A i, j \in Slot : hash.next[i] = j <=> hash.prev[j] = i
    /\ \A i \in Slot, b \in Bucket :
          hash.head[b] = i <=>
             hash.prev[i] = None /\ TLB_HASH[tlb[i].hi.page] = b
    /\ \A i, j \in Slot : hash.next[i] = j =>
          TLB_HASH[tlb[i].hi.page] = TLB_HASH[tlb[j].hi.page]

(* The hashed TLB answers as an unordered table of entries would, and      *)
(* accesses get the frames and the exceptions that cpu.c:172-209 lists,    *)
(* but for two: a store of the user to the kernel's addresses always gets  *)
(* AdEL where the list has AdES, and a fetch of the user from there gets   *)
(* either its address error or the very frame the kernel would fetch from. *)
ImplementsTlb == TlbSpec
=============================================================================
