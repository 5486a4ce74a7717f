----------------------------- MODULE Mmu_proofs -----------------------------
(***************************************************************************)
(* Proofs about the address translation of the emulator and its            *)
(* instruction cache, for every number of entries, pages, address spaces   *)
(* and ways and every hash function.                                       *)
(***************************************************************************)
EXTENDS Mmu, FiniteSetTheorems, WellFoundedInduction, TLAPS

(* Slot numbers are never None, and there is one. *)
LEMMA Slots == 0 \in Slot /\ None \notin Slot /\ Slot \subseteq Int
BY TlbAssumption DEF Slot, None

(* The search of cpuPrvTlbHashSearch answers with an index or with None. *)
LEMMA SearchType ==
    ASSUME NEW entries, NEW h, NEW asid, NEW page
    PROVE  SearchIn(entries, h, asid, page) \in Idx
<1> DEFINE w == Walk(h, page)
           Stops(k) == w[k] \in Slot /\ Matches(entries[w[k]], page, asid)
           First(k) == Stops(k) /\ \A j \in 0 .. k - 1 : ~ Stops(j)
           f == CHOOSE k \in 0 .. NumEntries : First(k)
<1>1. SearchIn(entries, h, asid, page) =
         IF \E k \in 0 .. NumEntries : First(k) THEN w[f] ELSE None
  BY DEF SearchIn
<1>2. ASSUME \E k \in 0 .. NumEntries : First(k)
      PROVE  w[f] \in Slot
  <2>1. First(f)
    BY <1>2
  <2> QED
    BY <2>1
<1> QED
  BY <1>1, <1>2 DEF Idx

LEMMA RemoveType ==
    ASSUME NEW h \in Lists, NEW i \in Slot, NEW page \in Page
    PROVE  HashRemove(h, i, page) \in Lists
BY HashAssumption DEF HashRemove, Lists, Idx

LEMMA AddType ==
    ASSUME NEW h \in Lists, NEW i \in Slot, NEW page \in Page
    PROVE  HashAdd(h, i, page) \in Lists
BY HashAssumption DEF HashAdd, Lists, Idx
-----------------------------------------------------------------------------
(* A frame that a translation shows is a frame. *)
LEMMA FrameShown ==
    ASSUME HashTypeOK, NEW page \in Page, NEW write \in BOOLEAN,
           NEW user \in BOOLEAN, NEW i \in Idx,
           cpuPrvMemTranslate(i, page, write, user).kind = "frame"
    PROVE  cpuPrvMemTranslate(i, page, write, user).of \in Frame
<1>1. CASE Denied(page, user)
  BY <1>1 DEF cpuPrvMemTranslate, Exception
<1>2. CASE ~ Denied(page, user) /\ page \in Direct
  BY <1>2, TlbAssumption DEF cpuPrvMemTranslate, Reached
<1>3. CASE LookedUp(page, user) /\ i = None
  BY <1>3 DEF cpuPrvMemTranslate, LookedUp, Exception
<1>4. CASE LookedUp(page, user) /\ i # None
  <2>1. i \in Slot /\ tlb[i].lo.frame \in Frame
    BY <1>4 DEF HashTypeOK, Idx, Entry, Lo
  <2> QED
    BY <1>4, <2>1 DEF cpuPrvMemTranslate, LookedUp, Exception, Reached
<1> QED
  BY <1>1, <1>2, <1>3, <1>4 DEF LookedUp

LEMMA TranslateType ==
    ASSUME HashTypeOK, NEW page \in Page, NEW op \in Op,
           NEW user \in BOOLEAN, HashTranslate(page, op, user)
    PROVE  /\ HashTypeOK'
           /\ shown'.kind = "frame" => shown'.of \in Frame
<1>1. Search(page) \in Idx
  BY SearchType DEF Search
<1> DEFINE answer == cpuPrvMemTranslate(Search(page), page, op = "store", user)
<1>2. shown'.kind = answer.kind /\ shown'.of = answer.of
  BY DEF HashTranslate, Translate, Show
<1>3. entryHi' \in Hi
  BY DEF HashTranslate, Translate, HashTypeOK, Hi
<1>4. HashTypeOK'
  BY <1>3 DEF HashTranslate, Translate, HashTypeOK
<1> QED
  BY <1>1, <1>2, <1>4, FrameShown

LEMMA IndexSlotType ==
    ASSUME HashTypeOK PROVE IndexSlot \in Slot
BY Slots DEF IndexSlot, HashTypeOK, Idx

LEMMA WriteType ==
    ASSUME HashTypeOK, NEW i \in Slot, HashWrite(i)
    PROVE  HashTypeOK'
<1>1. [hi |-> entryHi, lo |-> entryLo] \in Entry
  BY DEF HashTypeOK, Entry
<1>2. tlb' \in [Slot -> Entry]
  BY <1>1 DEF HashWrite, TlbWrite, HashTypeOK
<1>3. tlb[i].hi.page \in Page /\ entryHi.page \in Page
  BY DEF HashTypeOK, Entry, Hi
<1>4. hash' \in Lists
  BY <1>3, RemoveType, AddType DEF HashWrite, Rehash, HashTypeOK
<1> QED
  BY <1>2, <1>4 DEF HashWrite, TlbWrite, HashTypeOK

(* Every step of the TLB keeps its registers and lists well typed. *)
LEMMA RegisterType ==
    ASSUME HashTypeOK,
           HashTlbr \/ HashTlbp \/ SetIndexReg \/ SetEntryHiReg \/ SetEntryLoReg
    PROVE  HashTypeOK'
<1>1. CASE HashTlbr
  <2>1. tlb[IndexSlot] \in Entry
    BY IndexSlotType DEF HashTypeOK
  <2> QED
    BY <1>1, <2>1 DEF HashTlbr, Tlbr, HashTypeOK, Entry
<1>2. CASE HashTlbp
  BY <1>2, SearchType DEF HashTlbp, Tlbp, HashTypeOK, Search
<1>3. CASE SetIndexReg
  BY <1>3 DEF SetIndexReg, SetIndex, HashTypeOK, Idx
<1>4. CASE SetEntryHiReg
  BY <1>4 DEF SetEntryHiReg, SetEntryHi, HashTypeOK
<1>5. CASE SetEntryLoReg
  BY <1>5 DEF SetEntryLoReg, SetEntryLo, HashTypeOK, Lo
<1> QED
  BY <1>1, <1>2, <1>3, <1>4, <1>5

LEMMA UnwiredSlots == Unwired \subseteq Slot
BY TlbAssumption DEF Unwired, Slot
-----------------------------------------------------------------------------
LEMMA InitType == MmuInit => MmuTypeOK
<1> SUFFICES ASSUME MmuInit PROVE MmuTypeOK
  OBVIOUS
<1>1. [page |-> ResetPage, asid |-> Asid0] \in Hi
      /\ [page |-> Page0, asid |-> Asid0] \in Hi
      /\ [frame |-> Frame0, flags |-> {}] \in Lo
  BY TlbAssumption DEF Hi, Lo, Page
<1>2. tlb \in [Slot -> Entry] /\ entryHi \in Hi /\ entryLo \in Lo
      /\ index \in Idx
  BY <1>1, Slots DEF MmuInit, HashInit, Init, Entry, Idx
<1>3. \A i \in Slot : /\ i - 1 \in Idx
                      /\ i # NumEntries - 1 => i + 1 \in Idx
  BY TlbAssumption DEF Slot, Idx, None
<1>4. hash \in Lists
  BY <1>3, Slots DEF MmuInit, HashInit, Lists, Idx
<1>5. icache \in [Way -> Line]
  BY DEF MmuInit, Line
<1> QED
  BY <1>2, <1>4, <1>5 DEF MmuTypeOK, HashTypeOK

LEMMA FlushType == Flush => icache' \in [Way -> Line]
BY DEF Flush, Line

LEMMA StepType == MmuTypeOK /\ [MmuNext]_mmuVars => MmuTypeOK'
<1> SUFFICES ASSUME MmuTypeOK, [MmuNext]_mmuVars PROVE MmuTypeOK'
  OBVIOUS
<1> USE DEF MmuTypeOK
<1>1. ASSUME NEW page \in Page, NEW user \in BOOLEAN, FetchHit(page, user)
      PROVE  MmuTypeOK'
  BY <1>1 DEF FetchHit, HashTypeOK
<1>2. ASSUME NEW page \in Page, NEW user \in BOOLEAN, FetchMiss(page, user)
      PROVE  MmuTypeOK'
  <2>1. HashTypeOK' /\ (shown'.kind = "frame" => shown'.of \in Frame)
    BY <1>2, TranslateType DEF FetchMiss, Op
  <2>2. icache' \in [Way -> Line]
    BY <1>2, <2>1 DEF FetchMiss, Fills, Line
  <2> QED
    BY <2>1, <2>2
<1>3. ASSUME NEW page \in Page, NEW op \in Op, NEW user \in BOOLEAN,
             NEW isolated \in {FALSE, op = "store"},
             DataAccess(page, op, user, isolated)
      PROVE  MmuTypeOK'
  BY <1>3, TranslateType, FlushType DEF DataAccess
<1>4. CASE MmuTlbwi
  BY <1>4, IndexSlotType, WriteType, FlushType DEF MmuTlbwi, HashTlbwi
<1>5. CASE MmuTlbwr
  BY <1>5, UnwiredSlots, WriteType, FlushType DEF MmuTlbwr, HashTlbwr
<1>6. CASE MmuTlbr \/ MmuTlbp \/ MmuSetIndex \/ MmuSetEntryHi \/ MmuSetEntryLo
  BY <1>6, RegisterType, FlushType
     DEF MmuTlbr, MmuTlbp, MmuSetIndex, MmuSetEntryHi, MmuSetEntryLo,
         FlushIfAsidChanged
<1>7. CASE UNCHANGED mmuVars
  BY <1>7 DEF mmuVars, HashTypeOK
<1> QED
  BY <1>1, <1>2, <1>3, <1>4, <1>5, <1>6, <1>7 DEF MmuNext

(* The registers, the lists and the instruction cache stay within their    *)
(* types: in particular no index leaves the table, whatever the machine    *)
(* writes and probes.                                                      *)
THEOREM MmuTypeCorrect == MmuSpec => []MmuTypeOK
BY InitType, StepType, PTL DEF MmuSpec
-----------------------------------------------------------------------------
(* Where the processor would fetch an instruction of a page from.          *)
FetchedFrom(page) == cpuPrvMemTranslate(Search(page), page, FALSE, FALSE)

(* It depends on the entries, the lists and the address space only.        *)
LEMMA SameTranslation ==
    ASSUME tlb' = tlb, hash' = hash, entryHi'.asid = entryHi.asid
    PROVE  \A page : FetchedFrom(page)' = FetchedFrom(page)
<1> TAKE page
<1>1. Search(page)' = Search(page)
  BY DEF Search
<1> QED
  BY <1>1 DEF FetchedFrom, cpuPrvMemTranslate, Denied, Reached

(* A user who may fetch fetches from where the kernel would.               *)
LEMMA UserFetchesAlike ==
    ASSUME NEW i, NEW page, NEW user \in BOOLEAN,
           cpuPrvMemTranslate(i, page, FALSE, user).kind = "frame"
    PROVE  cpuPrvMemTranslate(i, page, FALSE, FALSE) =
              Reached(cpuPrvMemTranslate(i, page, FALSE, user).of)
<1>1. ~ Denied(page, user)
  BY DEF cpuPrvMemTranslate, Exception
<1>2. ~ Denied(page, FALSE)
  BY DEF Denied
<1>3. cpuPrvMemTranslate(i, page, FALSE, FALSE)
         = cpuPrvMemTranslate(i, page, FALSE, user)
  BY <1>1, <1>2 DEF cpuPrvMemTranslate
<1> QED
  BY <1>1, <1>3 DEF cpuPrvMemTranslate, Exception, Reached

LEMMA FlushForgets == Flush => CachedIsMapped'
BY DEF Flush, CachedIsMapped

(* What keeps the translations and the cache keeps them in step.           *)
LEMMA NothingStale ==
    ASSUME CachedIsMapped, UNCHANGED <<tlb, hash, icache>>,
           entryHi'.asid = entryHi.asid
    PROVE  CachedIsMapped'
BY SameTranslation DEF CachedIsMapped, FetchedFrom

(* A step of translation, an exception included, keeps the translations.   *)
LEMMA TranslateKeeps ==
    ASSUME HashTypeOK, NEW page, NEW op, NEW user,
           HashTranslate(page, op, user)
    PROVE  UNCHANGED <<tlb, hash>> /\ entryHi'.asid = entryHi.asid
BY DEF HashTranslate, Translate, HashTypeOK, Hi

LEMMA InitMapped == MmuInit => CachedIsMapped
BY DEF MmuInit, CachedIsMapped

LEMMA StepMapped ==
    MmuTypeOK /\ CachedIsMapped /\ [MmuNext]_mmuVars => CachedIsMapped'
<1> SUFFICES ASSUME MmuTypeOK, CachedIsMapped, [MmuNext]_mmuVars
             PROVE  CachedIsMapped'
  OBVIOUS
<1>0. HashTypeOK /\ icache \in [Way -> Line]
  BY DEF MmuTypeOK
<1>1. ASSUME NEW page \in Page, NEW user \in BOOLEAN, FetchHit(page, user)
      PROVE  CachedIsMapped'
  BY <1>1, NothingStale DEF FetchHit
<1>2. ASSUME NEW page \in Page, NEW user \in BOOLEAN, FetchMiss(page, user)
      PROVE  CachedIsMapped'
  <2>1. UNCHANGED <<tlb, hash>> /\ entryHi'.asid = entryHi.asid
    BY <1>0, <1>2, TranslateKeeps DEF FetchMiss
  <2>2. \A p : FetchedFrom(p)' = FetchedFrom(p)
    BY <2>1, SameTranslation
  <2>3. CASE ~ Fills
    BY <1>2, <2>1, <2>3, NothingStale DEF FetchMiss
  <2>4. CASE Fills
    <3>1. PICK w \in Way : icache' = [icache EXCEPT
                               ![w] = [page |-> page, frame |-> shown'.of]]
      BY <1>2, <2>4 DEF FetchMiss
    <3>2. /\ shown'.kind
                = cpuPrvMemTranslate(Search(page), page, FALSE, user).kind
          /\ shown'.of
                = cpuPrvMemTranslate(Search(page), page, FALSE, user).of
      BY <1>2 DEF FetchMiss, HashTranslate, Translate, Show
    <3>3. FetchedFrom(page) = Reached(shown'.of)
      BY <2>4, <3>2, UserFetchesAlike DEF Fills, FetchedFrom
    <3>4. ASSUME NEW v \in Way, icache'[v] # Empty
          PROVE  FetchedFrom(icache'[v].page) = Reached(icache'[v].frame)
      <4>1. CASE v = w
        BY <1>0, <3>1, <3>3, <4>1
      <4>2. CASE v # w
        BY <1>0, <3>1, <3>4, <4>2 DEF CachedIsMapped, FetchedFrom
      <4> QED
        BY <4>1, <4>2
    <3> QED
      BY <2>2, <3>4 DEF CachedIsMapped, FetchedFrom, Reached
  <2> QED
    BY <2>3, <2>4
<1>3. ASSUME NEW page \in Page, NEW op \in Op, NEW user \in BOOLEAN,
             NEW isolated \in {FALSE, op = "store"},
             DataAccess(page, op, user, isolated)
      PROVE  CachedIsMapped'
  BY <1>0, <1>3, TranslateKeeps, FlushForgets, NothingStale DEF DataAccess
<1>4. CASE MmuTlbwi \/ MmuTlbwr
  BY <1>4, FlushForgets DEF MmuTlbwi, MmuTlbwr
<1>5. CASE MmuTlbr
  BY <1>5, FlushForgets, NothingStale
     DEF MmuTlbr, HashTlbr, Tlbr, FlushIfAsidChanged
<1>6. CASE MmuSetEntryHi
  BY <1>6, FlushForgets, NothingStale
     DEF MmuSetEntryHi, SetEntryHiReg, SetEntryHi, FlushIfAsidChanged
<1>7. CASE MmuTlbp \/ MmuSetIndex \/ MmuSetEntryLo
  BY <1>7, NothingStale
     DEF MmuTlbp, HashTlbp, Tlbp, MmuSetIndex, SetIndexReg, SetIndex,
         MmuSetEntryLo, SetEntryLoReg, SetEntryLo
<1>8. CASE UNCHANGED mmuVars
  BY <1>8, NothingStale DEF mmuVars
<1> QED
  BY <1>1, <1>2, <1>3, <1>4, <1>5, <1>6, <1>7, <1>8 DEF MmuNext

(* The instruction cache never serves an instruction from a frame that the *)
(* current translation does not lead to.  It is keyed by virtual address   *)
(* alone, so this needs every flush of cpu.c:577, 604 and no other fact.   *)
THEOREM InstructionsAreMapped == MmuSpec => []CachedIsMapped
<1>1. MmuInit => MmuTypeOK /\ CachedIsMapped
  BY InitType, InitMapped
<1>2. (MmuTypeOK /\ CachedIsMapped) /\ [MmuNext]_mmuVars
        => (MmuTypeOK /\ CachedIsMapped)'
  BY StepType, StepMapped
<1> QED
  BY <1>1, <1>2, PTL DEF MmuSpec
-----------------------------------------------------------------------------
(* The lists.  bk is the bucket each slot belongs to: Linked says of the   *)
(* lists as they are that they are LinkedIn the buckets of the pages held. *)
LinkedIn(h, bk) ==
    /\ \A i, j \in Slot : h.next[i] = j <=> h.prev[j] = i
    /\ \A i \in Slot, b \in Bucket :
          h.head[b] = i <=> h.prev[i] = None /\ bk[i] = b
    /\ \A i, j \in Slot : h.next[i] = j => bk[i] = bk[j]

(* The same while slot i is in no list. *)
LinkedBut(h, bk, i) ==
    /\ \A j, k \in Slot \ {i} : h.next[j] = k <=> h.prev[k] = j
    /\ \A j \in Slot \ {i}, b \in Bucket :
          h.head[b] = j <=> h.prev[j] = None /\ bk[j] = b
    /\ \A j, k \in Slot \ {i} : h.next[j] = k => bk[j] = bk[k]
    /\ \A j \in Slot \ {i} : h.next[j] # i /\ h.prev[j] # i
    /\ \A b \in Bucket : h.head[b] # i

BucketOf == [i \in Slot |-> TLB_HASH[tlb[i].hi.page]]

LEMMA LinkedIsLinkedIn == Linked <=> LinkedIn(hash, BucketOf)
BY DEF Linked, LinkedIn, BucketOf

(* Taking a slot out mends the list it was in and no other.                *)
LEMMA RemoveMends ==
    ASSUME NEW h \in Lists, NEW bk \in [Slot -> Bucket], NEW i \in Slot,
           NEW page \in Page, bk[i] = TLB_HASH[page], LinkedIn(h, bk)
    PROVE  LinkedBut(HashRemove(h, i, page), bk, i)
<1> DEFINE before == h.prev[i]
           after  == h.next[i]
           r == HashRemove(h, i, page)
<1>1. before \in Idx /\ after \in Idx /\ None \notin Slot
  BY Slots DEF Lists
<1>2. \A j \in Slot : r.prev[j] = IF j = after THEN before ELSE h.prev[j]
  BY <1>1 DEF HashRemove, Lists
<1>3. \A j \in Slot : r.next[j] = IF j = before THEN after ELSE h.next[j]
  BY <1>1 DEF HashRemove, Lists
<1>4. \A b \in Bucket : r.head[b] = IF before = None /\ b = bk[i] THEN after
                                                              ELSE h.head[b]
  BY <1>1 DEF HashRemove, Lists
<1>5. /\ \A j \in Slot : h.next[i] = j <=> h.prev[j] = i
      /\ \A j \in Slot : h.next[j] = i <=> h.prev[i] = j
  BY DEF LinkedIn
<1> HIDE DEF r
<1>6. \A j, k \in Slot \ {i} : r.next[j] = k <=> r.prev[k] = j
  BY <1>1, <1>2, <1>3, <1>5 DEF LinkedIn, Idx
<1>7. \A j \in Slot \ {i}, b \in Bucket :
         r.head[b] = j <=> r.prev[j] = None /\ bk[j] = b
  <2> SUFFICES ASSUME NEW j \in Slot \ {i}, NEW b \in Bucket
               PROVE  r.head[b] = j <=> r.prev[j] = None /\ bk[j] = b
    OBVIOUS
  <2>1. /\ h.head[b] = j <=> h.prev[j] = None /\ bk[j] = b
        /\ h.head[b] = i <=> before = None /\ bk[i] = b
        /\ after = j => bk[i] = bk[j]
        /\ h.prev[j] = i <=> after = j
    BY DEF LinkedIn
  <2>2. r.prev[j] = IF j = after THEN before ELSE h.prev[j]
    BY <1>2
  <2>3. r.head[b] = IF before = None /\ b = bk[i] THEN after ELSE h.head[b]
    BY <1>4
  <2> QED
    BY <1>1, <2>1, <2>2, <2>3
<1>8. \A j, k \in Slot \ {i} : r.next[j] = k => bk[j] = bk[k]
  BY <1>1, <1>3, <1>5 DEF LinkedIn, Idx
<1>9. \A j \in Slot \ {i} : r.next[j] # i /\ r.prev[j] # i
  BY <1>1, <1>2, <1>3, <1>5 DEF Idx
<1>10. \A b \in Bucket : r.head[b] # i
  BY <1>1, <1>4, <1>5 DEF LinkedIn, Idx
<1> QED
  BY <1>6, <1>7, <1>8, <1>9, <1>10 DEF LinkedBut, r

(* Putting a slot at the head of a list leaves every list linked.          *)
LEMMA AddLinks ==
    ASSUME NEW h \in Lists, NEW bk \in [Slot -> Bucket], NEW i \in Slot,
           NEW page \in Page, LinkedBut(h, bk, i)
    PROVE  LinkedIn(HashAdd(h, i, page), [bk EXCEPT ![i] = TLB_HASH[page]])
<1> DEFINE b0    == TLB_HASH[page]
           first == h.head[b0]
           a     == HashAdd(h, i, page)
           bk2   == [bk EXCEPT ![i] = b0]
<1>1. b0 \in Bucket /\ first \in Idx /\ first # i /\ None \notin Slot
  BY Slots, HashAssumption DEF Lists, LinkedBut
<1>2. \A j \in Slot : a.prev[j] = IF j = i THEN None
                                  ELSE IF j = first THEN i ELSE h.prev[j]
  BY <1>1 DEF HashAdd, Lists
<1>3. \A j \in Slot : a.next[j] = IF j = i THEN first ELSE h.next[j]
  BY <1>1 DEF HashAdd, Lists
<1>4. \A b \in Bucket : a.head[b] = IF b = b0 THEN i ELSE h.head[b]
  BY <1>1 DEF HashAdd, Lists
<1>5. \A j \in Slot : bk2[j] = IF j = i THEN b0 ELSE bk[j]
  OBVIOUS
<1> HIDE DEF a, bk2, b0
<1>6. \A j, k \in Slot : a.next[j] = k <=> a.prev[k] = j
  BY <1>1, <1>2, <1>3 DEF LinkedBut, Idx, Lists
<1>7. \A j \in Slot, b \in Bucket :
         a.head[b] = j <=> a.prev[j] = None /\ bk2[j] = b
  BY <1>1, <1>2, <1>4, <1>5 DEF LinkedBut, Idx, Lists
<1>8. \A j, k \in Slot : a.next[j] = k => bk2[j] = bk2[k]
  BY <1>1, <1>3, <1>5 DEF LinkedBut, Idx, Lists
<1> QED
  BY <1>6, <1>7, <1>8 DEF LinkedIn, a, bk2, b0

LEMMA WriteLinks ==
    ASSUME HashTypeOK, Linked, NEW i \in Slot, HashWrite(i)
    PROVE  Linked'
<1> DEFINE r == HashRemove(hash, i, tlb[i].hi.page)
<1>1. tlb[i].hi.page \in Page /\ entryHi.page \in Page
  BY DEF HashTypeOK, Entry, Hi
<1>2. BucketOf \in [Slot -> Bucket] /\ BucketOf[i] = TLB_HASH[tlb[i].hi.page]
  BY HashAssumption DEF BucketOf, HashTypeOK, Entry, Hi
<1>3. r \in Lists
  BY <1>1, RemoveType DEF HashTypeOK
<1>4. LinkedBut(r, BucketOf, i)
  BY <1>1, <1>2, RemoveMends, LinkedIsLinkedIn DEF HashTypeOK
<1>5. LinkedIn(HashAdd(r, i, entryHi.page),
               [BucketOf EXCEPT ![i] = TLB_HASH[entryHi.page]])
  BY <1>1, <1>2, <1>3, <1>4, AddLinks
<1>6. hash' = HashAdd(r, i, entryHi.page)
  BY DEF HashWrite, Rehash
<1>7. BucketOf' = [BucketOf EXCEPT ![i] = TLB_HASH[entryHi.page]]
  BY DEF BucketOf, HashWrite, TlbWrite, HashTypeOK
<1>8. LinkedIn(hash', BucketOf')
  BY <1>5, <1>6, <1>7
<1> QED
  BY <1>8, LinkedIsLinkedIn DEF Linked, LinkedIn, BucketOf

LEMMA InitLinked == MmuInit => Linked
<1> SUFFICES ASSUME MmuInit PROVE Linked
  OBVIOUS
<1>1. /\ \A i \in Slot : hash.prev[i] = i - 1
      /\ \A i \in Slot : hash.next[i] = IF i = NumEntries - 1 THEN None
                                                           ELSE i + 1
      /\ \A b \in Bucket : hash.head[b] = IF b = TLB_HASH[ResetPage] THEN 0
                                                                  ELSE None
      /\ \A i \in Slot : tlb[i].hi.page = ResetPage
  BY DEF MmuInit, HashInit, Init
<1> QED
  BY <1>1, TlbAssumption DEF Linked, Slot, None

(* The lists and the entries change only when an entry is written.         *)
LEMMA WritesOnly ==
    ASSUME MmuTypeOK, [MmuNext]_mmuVars
    PROVE  (\E i \in Slot : HashWrite(i)) \/ UNCHANGED <<tlb, hash>>
<1>0. HashTypeOK
  BY DEF MmuTypeOK
<1>1. CASE MmuTlbwi
  BY <1>0, <1>1, IndexSlotType DEF MmuTlbwi, HashTlbwi
<1>2. CASE MmuTlbwr
  BY <1>2, UnwiredSlots DEF MmuTlbwr, HashTlbwr
<1>3. ASSUME NEW page \in Page, NEW user \in BOOLEAN, FetchHit(page, user)
      PROVE  UNCHANGED <<tlb, hash>>
  BY <1>3 DEF FetchHit
<1>4. ASSUME NEW page \in Page, NEW user \in BOOLEAN, FetchMiss(page, user)
      PROVE  UNCHANGED <<tlb, hash>>
  BY <1>0, <1>4, TranslateKeeps DEF FetchMiss
<1>5. ASSUME NEW page \in Page, NEW op \in Op, NEW user \in BOOLEAN,
             NEW isolated \in {FALSE, op = "store"},
             DataAccess(page, op, user, isolated)
      PROVE  UNCHANGED <<tlb, hash>>
  BY <1>0, <1>5, TranslateKeeps DEF DataAccess
<1>6. CASE MmuTlbr \/ MmuTlbp \/ MmuSetIndex \/ MmuSetEntryHi \/ MmuSetEntryLo
  BY <1>6
     DEF MmuTlbr, HashTlbr, Tlbr, MmuTlbp, HashTlbp, Tlbp,
         MmuSetIndex, SetIndexReg, SetIndex, MmuSetEntryHi, SetEntryHiReg,
         SetEntryHi, MmuSetEntryLo, SetEntryLoReg, SetEntryLo
<1>7. CASE UNCHANGED mmuVars
  BY <1>7 DEF mmuVars
<1> QED
  BY <1>1, <1>2, <1>3, <1>4, <1>5, <1>6, <1>7 DEF MmuNext

LEMMA StepLinked ==
    MmuTypeOK /\ Linked /\ [MmuNext]_mmuVars => Linked'
<1> SUFFICES ASSUME MmuTypeOK, Linked, [MmuNext]_mmuVars PROVE Linked'
  OBVIOUS
<1>1. CASE UNCHANGED <<tlb, hash>>
  BY <1>1 DEF Linked
<1>2. CASE \E i \in Slot : HashWrite(i)
  BY <1>2, WriteLinks DEF MmuTypeOK
<1> QED
  BY <1>1, <1>2, WritesOnly

(* Whatever entries the machine rewrites, prevIdx and nextIdx stay inverse *)
(* and every entry stays in the list of its own page's bucket, with the    *)
(* heads in tlbHash: what makes the removal of an entry at cpu.c:526-536   *)
(* touch the right list.                                                   *)
THEOREM ListsStayLinked == MmuSpec => []Linked
<1>1. MmuInit => MmuTypeOK /\ Linked
  BY InitType, InitLinked
<1>2. (MmuTypeOK /\ Linked) /\ [MmuNext]_mmuVars => (MmuTypeOK /\ Linked)'
  BY StepType, StepLinked
<1> QED
  BY <1>1, <1>2, PTL DEF MmuSpec
-----------------------------------------------------------------------------
(* Every list ends: along nextIdx some rank falls, so that the loop of     *)
(* cpuPrvTlbHashSearch, which has no bound of its own, always stops.       *)
Falls(h, rank) == \A i, j \in Slot : h.next[i] = j => rank[i] > rank[j]

EveryListEnds == \E rank \in [Slot -> Int] : Falls(hash, rank)

LEMMA RemoveFalls ==
    ASSUME NEW h \in Lists, NEW bk \in [Slot -> Bucket], NEW i \in Slot,
           NEW page \in Page, LinkedIn(h, bk),
           NEW rank \in [Slot -> Int], Falls(h, rank)
    PROVE  Falls(HashRemove(h, i, page), rank)
<1> DEFINE before == h.prev[i]
           after  == h.next[i]
           r == HashRemove(h, i, page)
<1>1. before \in Idx /\ after \in Idx /\ None \notin Slot
  BY Slots DEF Lists
<1>2. \A j \in Slot : r.next[j] = IF j = before THEN after ELSE h.next[j]
  BY <1>1 DEF HashRemove, Lists
<1>3. before \in Slot => h.next[before] = i
  BY DEF LinkedIn
<1> HIDE DEF r
<1>4. ASSUME NEW j \in Slot, NEW k \in Slot, r.next[j] = k
      PROVE  rank[j] > rank[k]
  <2>1. CASE j # before
    BY <1>2, <1>4, <2>1 DEF Falls
  <2>2. CASE j = before
    <3>1. rank[j] > rank[i]
      BY <1>3, <2>2 DEF Falls
    <3>2. rank[i] > rank[k]
      BY <1>2, <1>4, <2>2 DEF Falls
    <3> QED
      BY <3>1, <3>2
  <2> QED
    BY <2>1, <2>2
<1> QED
  BY <1>4 DEF Falls, r

LEMMA AddFalls ==
    ASSUME NEW h \in Lists, NEW bk \in [Slot -> Bucket], NEW i \in Slot,
           NEW page \in Page, LinkedBut(h, bk, i),
           NEW rank \in [Slot -> Int], Falls(h, rank)
    PROVE  \E higher \in [Slot -> Int] : Falls(HashAdd(h, i, page), higher)
<1> DEFINE first  == h.head[TLB_HASH[page]]
           a      == HashAdd(h, i, page)
           top    == IF first = None THEN 0 ELSE rank[first] + 1
           higher == [rank EXCEPT ![i] = top]
<1>1. first \in Idx /\ first # i /\ None \notin Slot
  BY Slots, HashAssumption DEF Lists, LinkedBut
<1>2. \A j \in Slot : a.next[j] = IF j = i THEN first ELSE h.next[j]
  BY <1>1 DEF HashAdd, Lists
<1>3. top \in Int
  BY <1>1 DEF Idx
<1>4. \A j \in Slot : higher[j] = IF j = i THEN top ELSE rank[j]
  OBVIOUS
<1> HIDE DEF a, higher
<1>5. ASSUME NEW j \in Slot, NEW k \in Slot, a.next[j] = k
      PROVE  higher[j] > higher[k]
  <2>1. CASE j = i
    BY <1>1, <1>2, <1>4, <1>5, <2>1
  <2>2. CASE j # i
    BY <1>2, <1>4, <1>5, <2>2 DEF Falls, LinkedBut
  <2> QED
    BY <2>1, <2>2
<1>6. higher \in [Slot -> Int]
  BY <1>3 DEF higher
<1> QED
  BY <1>5, <1>6 DEF Falls, a

LEMMA WriteEnds ==
    ASSUME HashTypeOK, Linked, EveryListEnds, NEW i \in Slot, HashWrite(i)
    PROVE  EveryListEnds'
<1> DEFINE r == HashRemove(hash, i, tlb[i].hi.page)
<1>1. tlb[i].hi.page \in Page /\ entryHi.page \in Page
  BY DEF HashTypeOK, Entry, Hi
<1>2. BucketOf \in [Slot -> Bucket] /\ BucketOf[i] = TLB_HASH[tlb[i].hi.page]
  BY HashAssumption DEF BucketOf, HashTypeOK, Entry, Hi
<1>3. hash \in Lists /\ r \in Lists
  BY <1>1, RemoveType DEF HashTypeOK
<1>4. LinkedIn(hash, BucketOf) /\ LinkedBut(r, BucketOf, i)
  BY <1>1, <1>2, <1>3, RemoveMends, LinkedIsLinkedIn
<1>5. PICK rank \in [Slot -> Int] : Falls(hash, rank)
  BY DEF EveryListEnds
<1>6. Falls(r, rank)
  BY <1>1, <1>2, <1>3, <1>4, <1>5, RemoveFalls
<1>7. \E higher \in [Slot -> Int] : Falls(HashAdd(r, i, entryHi.page), higher)
  BY <1>1, <1>2, <1>3, <1>4, <1>6, AddFalls
<1>8. hash' = HashAdd(r, i, entryHi.page)
  BY DEF HashWrite, Rehash
<1> QED
  BY <1>7, <1>8 DEF EveryListEnds, Falls

LEMMA InitEnds == MmuInit => EveryListEnds
<1> SUFFICES ASSUME MmuInit PROVE EveryListEnds
  OBVIOUS
<1> DEFINE rank == [i \in Slot |-> - i]
<1>1. rank \in [Slot -> Int]
  BY Slots
<1>2. \A i \in Slot : hash.next[i] = IF i = NumEntries - 1 THEN None ELSE i + 1
  BY DEF MmuInit, HashInit
<1>3. Falls(hash, rank)
  BY <1>2, Slots DEF Falls
<1> QED
  BY <1>1, <1>3 DEF EveryListEnds

LEMMA StepEnds ==
    MmuTypeOK /\ Linked /\ EveryListEnds /\ [MmuNext]_mmuVars
      => EveryListEnds'
<1> SUFFICES ASSUME MmuTypeOK, Linked, EveryListEnds, [MmuNext]_mmuVars
             PROVE  EveryListEnds'
  OBVIOUS
<1>1. CASE UNCHANGED <<tlb, hash>>
  BY <1>1 DEF EveryListEnds, Falls
<1>2. CASE \E i \in Slot : HashWrite(i)
  BY <1>2, WriteEnds DEF MmuTypeOK
<1> QED
  BY <1>1, <1>2, WritesOnly

(* The loop of a search, cpu.c:555, ends in every state: no sequence of    *)
(* TLB writes ties a list into a ring.                                     *)
THEOREM SearchesEnd == MmuSpec => []EveryListEnds
<1> DEFINE I == MmuTypeOK /\ Linked /\ EveryListEnds
<1>1. MmuInit => I
  BY InitType, InitLinked, InitEnds
<1>2. I /\ [MmuNext]_mmuVars => I'
  BY StepType, StepLinked, StepEnds
<1> QED
  BY <1>1, <1>2, PTL DEF MmuSpec
-----------------------------------------------------------------------------
(* Numbers, for the walks along the lists. *)
LEMMA Least ==
    ASSUME NEW T, T \subseteq Nat, T # {}
    PROVE  \E x \in T : \A y \in T : x <= y
<1> DEFINE R == OpToRel(<, Nat)
<1>1. IsWellFoundedOn(R, Nat)
  BY NatLessThanWellFounded
<1>2. ASSUME NEW x \in Nat, NEW y \in Nat, y < x
      PROVE  <<y, x>> \in R
  <2>1. <<y, x>> \in Nat \X Nat /\ <<y, x>>[1] < <<y, x>>[2]
    BY <1>2
  <2> QED
    BY <2>1 DEF OpToRel
<1> HIDE DEF R
<1>3. PICK x \in T : \A y \in T : ~ (<<y, x>> \in R)
  BY <1>1, WFMin
<1>4. ASSUME NEW y \in T PROVE x <= y
  <2>1. x \in Nat /\ y \in Nat
    OBVIOUS
  <2>2. ~ (y < x)
    BY <1>2, <1>3, <2>1
  <2> QED BY <2>1, <2>2
<1> QED
  BY <1>4

(* A set of numbers that holds 0 and the successor of each it holds.       *)
LEMMA Counting ==
    ASSUME NEW T, 0 \in T, \A n \in Nat : n \in T => n + 1 \in T
    PROVE  Nat \subseteq T
<1> SUFFICES ASSUME Nat \ T # {} PROVE FALSE
  OBVIOUS
<1>1. PICK x \in Nat \ T : \A y \in Nat \ T : x <= y
  BY Least
<1>2. x # 0 /\ x - 1 \in Nat /\ (x - 1) + 1 = x
  OBVIOUS
<1>3. x - 1 \in T
  BY <1>1, <1>2
<1> QED
  BY <1>2, <1>3

(* The walk from a head. *)
Along(h, i) == IF i = None THEN None ELSE h.next[i]

IsWalk(w, h, b, n) ==
    w = [k \in 0 .. n |-> IF k = 0 THEN h.head[b] ELSE Along(h, w[k - 1])]

LEMMA WalksExist ==
    ASSUME NEW h \in Lists, NEW b \in Bucket, NEW n \in Nat
    PROVE  \E w \in [0 .. n -> Idx] : IsWalk(w, h, b, n)
<1> DEFINE T == {m \in Nat : \E w \in [0 .. m -> Idx] : IsWalk(w, h, b, m)}
<1>0. h.head[b] \in Idx /\ \A i \in Idx : Along(h, i) \in Idx
  BY DEF Lists, Idx, Along
<1>1. 0 \in T
  <2> DEFINE w == [k \in 0 .. 0 |-> h.head[b]]
  <2>1. w \in [0 .. 0 -> Idx]
    BY <1>0
  <2>2. w = [k \in 0 .. 0 |-> IF k = 0 THEN h.head[b] ELSE Along(h, w[k - 1])]
    OBVIOUS
  <2> QED
    BY <2>1, <2>2 DEF IsWalk
<1>2. ASSUME NEW m \in Nat, m \in T PROVE m + 1 \in T
  <2>1. PICK w \in [0 .. m -> Idx] : IsWalk(w, h, b, m)
    BY <1>2
  <2> DEFINE v == [k \in 0 .. m + 1 |-> IF k \in 0 .. m THEN w[k] ELSE Along(h, w[m])]
  <2>2. v \in [0 .. m + 1 -> Idx]
    BY <1>0
  <2>3. ASSUME NEW k \in 0 .. m + 1
        PROVE  v[k] = IF k = 0 THEN h.head[b] ELSE Along(h, v[k - 1])
    <3>1. CASE k \in 0 .. m
      <4>1. w[k] = IF k = 0 THEN h.head[b] ELSE Along(h, w[k - 1])
        BY <2>1, <3>1 DEF IsWalk
      <4>2. k # 0 => k - 1 \in 0 .. m /\ k - 1 \in 0 .. m + 1
        BY <3>1
      <4> QED
        BY <3>1, <4>1, <4>2
    <3>2. CASE k = m + 1
      BY <3>2
    <3> QED
      BY <3>1, <3>2
  <2>4. IsWalk(v, h, b, m + 1)
    <3>1. v = [k \in 0 .. m + 1 |-> v[k]]
      OBVIOUS
    <3> HIDE DEF v
    <3> QED
      BY <2>3, <3>1 DEF IsWalk
  <2> HIDE DEF v
  <2> QED
    BY <2>2, <2>4
<1> HIDE DEF T
<1>3. Nat \subseteq T
  BY <1>1, <1>2, Counting
<1>4. n \in T
  BY <1>3
<1> QED
  BY <1>4 DEF T

(* What the loop of cpuPrvTlbHashSearch meets. *)
LEMMA WalkIs ==
    ASSUME NEW h \in Lists, NEW page \in Page
    PROVE  LET w == Walk(h, page)
           IN  /\ w \in [0 .. NumEntries -> Idx]
               /\ w[0] = h.head[TLB_HASH[page]]
               /\ \A k \in 1 .. NumEntries : w[k] = Along(h, w[k - 1])
<1> DEFINE b == TLB_HASH[page]
           w == Walk(h, page)
<1>1. b \in Bucket /\ NumEntries \in Nat
  BY HashAssumption, TlbAssumption
<1>2. w = CHOOSE v : IsWalk(v, h, b, NumEntries)
  BY DEF Walk, IsWalk, Along
<1>3. \E v : IsWalk(v, h, b, NumEntries)
  BY <1>1, WalksExist
<1>4. IsWalk(w, h, b, NumEntries)
  BY <1>2, <1>3
<1> HIDE DEF w
<1>5. /\ w[0] = h.head[b]
      /\ \A k \in 1 .. NumEntries : w[k] = Along(h, w[k - 1])
  <2>1. ASSUME NEW k \in 0 .. NumEntries
        PROVE  w[k] = IF k = 0 THEN h.head[b] ELSE Along(h, w[k - 1])
    BY <1>4 DEF IsWalk
  <2> HIDE DEF b
  <2> QED
    BY <1>1, <2>1
<1> DEFINE T == {m \in Nat : m =< NumEntries => w[m] \in Idx}
<1>6. h.head[b] \in Idx /\ \A i \in Idx : Along(h, i) \in Idx
  BY <1>1 DEF Lists, Idx, Along
<1>7. 0 \in T
  BY <1>5, <1>6
<1>8. ASSUME NEW m \in Nat, m \in T PROVE m + 1 \in T
  <2>1. CASE m + 1 =< NumEntries
    <3>1. m + 1 \in 1 .. NumEntries /\ m =< NumEntries /\ (m + 1) - 1 = m
      BY <1>1, <2>1
    <3>2. w[m + 1] = Along(h, w[m]) /\ w[m] \in Idx
      BY <1>5, <1>8, <3>1
    <3> QED
      BY <1>6, <3>2
  <2> QED
    BY <2>1
<1>9. Nat \subseteq T
  <2> HIDE DEF T
  <2> QED
    BY <1>7, <1>8, Counting
<1>10. \A k \in 0 .. NumEntries : w[k] \in Idx
  BY <1>1, <1>9
<1>11. w = [k \in 0 .. NumEntries |-> w[k]]
  BY <1>4 DEF IsWalk
<1>12. w \in [0 .. NumEntries -> Idx]
  BY <1>10, <1>11
<1> QED
  BY <1>5, <1>12 DEF w

(* A finite set of slots has one of the highest rank.                      *)
LEMMA Highest ==
    ASSUME NEW rank \in [Slot -> Int], NEW U, U \subseteq Slot, U # {}
    PROVE  \E i \in U : \A j \in U : rank[j] =< rank[i]
<1> DEFINE Good(S) == S = {} \/ \E i \in S : \A j \in S : rank[j] =< rank[i]
           T == {m \in Nat : \A S \in SUBSET {i \in Slot : i < m} : Good(S)}
<1>1. 0 \in T
  <2>1. {i \in Slot : i < 0} = {}
    BY DEF Slot
  <2> QED
    BY <2>1
<1>2. ASSUME NEW m \in Nat, m \in T PROVE m + 1 \in T
  <2> SUFFICES ASSUME NEW S \in SUBSET {i \in Slot : i < m + 1}
               PROVE  Good(S)
    OBVIOUS
  <2>1. \A i \in S : i \in Slot /\ (i < m \/ i = m) /\ rank[i] \in Int
    BY Slots
  <2>2. S \ {m} \in SUBSET {i \in Slot : i < m}
    BY <2>1
  <2>3. Good(S \ {m})
    BY <1>2, <2>2
  <2>4. CASE m \notin S
    <3>1. S \ {m} = S
      BY <2>4
    <3> QED
      BY <2>3, <3>1
  <2>5. CASE S \ {m} = {}
    BY <2>1, <2>5
  <2>6. CASE m \in S /\ S \ {m} # {}
    <3>1. PICK i \in S \ {m} : \A j \in S \ {m} : rank[j] =< rank[i]
      BY <2>3, <2>6
    <3>2. CASE rank[m] =< rank[i]
      BY <3>1, <3>2
    <3>3. CASE rank[m] > rank[i]
      <4>1. \A j \in S : rank[j] =< rank[m]
        BY <2>1, <2>6, <3>1, <3>3
      <4> QED
        BY <2>6, <4>1
    <3> QED
      BY <2>1, <2>6, <3>2, <3>3
  <2> QED
    BY <2>4, <2>5, <2>6
<1>3. Nat \subseteq T
  <2> HIDE DEF T
  <2> QED
    BY <1>1, <1>2, Counting
<1>4. U \in SUBSET {i \in Slot : i < NumEntries} /\ NumEntries \in Nat
  BY TlbAssumption DEF Slot
<1>5. Good(U)
  <2>1. NumEntries \in T
    BY <1>3, <1>4
  <2> QED
    BY <1>4, <2>1
<1> QED
  BY <1>5

(* Before a walk is as long as there are entries and one more, it ends.    *)
LEMMA WalksEnd ==
    ASSUME NEW h \in Lists, NEW page \in Page, NEW rank \in [Slot -> Int],
           Falls(h, rank)
    PROVE  Walk(h, page)[NumEntries] = None
<1> DEFINE w == Walk(h, page)
           N == NumEntries
<1>1. /\ w \in [0 .. N -> Idx]
      /\ \A k \in 1 .. N : w[k] = Along(h, w[k - 1])
  BY WalkIs
<1>2. N \in Nat /\ None \notin Slot
  BY TlbAssumption, Slots
<1> HIDE DEF w
<1> SUFFICES ASSUME w[N] # None PROVE FALSE
  BY DEF w
<1> DEFINE Alive == {m \in Nat : m =< N => w[N - m] \in Slot}
           Down(j) == {m \in Nat : j + m + 1 =< N => rank[w[j]] > rank[w[j + m + 1]]}
<1>3. \A k \in 0 .. N : w[k] \in Slot
  <2>1. 0 \in Alive
    BY <1>1, <1>2 DEF Idx
  <2>2. ASSUME NEW m \in Nat, m \in Alive PROVE m + 1 \in Alive
    <3>1. CASE m + 1 =< N
      <4>1. N - m \in 1 .. N /\ (N - m) - 1 = N - (m + 1)
            /\ N - (m + 1) \in 0 .. N
        BY <1>2, <3>1
      <4>2. w[N - m] = Along(h, w[N - (m + 1)]) /\ w[N - m] \in Slot
        BY <1>1, <1>2, <2>2, <3>1, <4>1
      <4>3. w[N - (m + 1)] # None
        BY <1>2, <4>2 DEF Along
      <4> QED
        BY <1>1, <4>1, <4>3 DEF Idx
    <3> QED
      BY <3>1
  <2>3. Nat \subseteq Alive
    <3> HIDE DEF Alive
    <3> QED
      BY <2>1, <2>2, Counting
  <2>4. ASSUME NEW k \in 0 .. N PROVE w[k] \in Slot
    <3>1. N - k \in Nat /\ N - k =< N /\ N - (N - k) = k
      BY <1>2
    <3> QED
      BY <2>3, <3>1
  <2> QED
    BY <2>4
<1>4. ASSUME NEW k \in 0 .. N, k + 1 =< N
      PROVE  rank[w[k]] > rank[w[k + 1]]
  <2>1. k + 1 \in 1 .. N /\ (k + 1) - 1 = k /\ k + 1 \in 0 .. N
    BY <1>2, <1>4
  <2>2. w[k + 1] = h.next[w[k]]
    BY <1>1, <1>2, <1>3, <2>1 DEF Along
  <2> QED
    BY <1>3, <2>1, <2>2 DEF Falls
<1>5. ASSUME NEW j \in 0 .. N, NEW k \in 0 .. N, j < k
      PROVE  rank[w[j]] > rank[w[k]]
  <2>1. 0 \in Down(j)
    BY <1>4, <1>2
  <2>2. ASSUME NEW m \in Nat, m \in Down(j) PROVE m + 1 \in Down(j)
    <3>1. CASE j + (m + 1) + 1 =< N
      <4>1. /\ j + m + 1 \in 0 .. N /\ (j + m + 1) + 1 = j + (m + 1) + 1
            /\ (j + m + 1) + 1 \in 0 .. N
        BY <1>2, <3>1
      <4>2. rank[w[j]] > rank[w[j + m + 1]]
        BY <2>2, <4>1, <1>2
      <4>3. rank[w[j + m + 1]] > rank[w[(j + m + 1) + 1]]
        BY <1>2, <1>4, <4>1
      <4>4. /\ rank[w[j]] \in Int /\ rank[w[j + m + 1]] \in Int
            /\ rank[w[(j + m + 1) + 1]] \in Int
        BY <1>3, <4>1
      <4>5. rank[w[j]] > rank[w[j + (m + 1) + 1]]
        BY <4>1, <4>2, <4>3, <4>4
      <4> QED
        BY <4>5
    <3> QED
      BY <3>1
  <2>3. Nat \subseteq Down(j)
    <3> HIDE DEF Down
    <3> QED
      BY <2>1, <2>2, Counting
  <2>4. (k - j) - 1 \in Nat /\ j + ((k - j) - 1) + 1 = k /\ k =< N
    BY <1>2, <1>5
  <2>5. (k - j) - 1 \in Down(j)
    BY <2>3, <2>4
  <2> QED
    BY <2>4, <2>5
<1>6. \E j, k \in 0 .. N : j # k /\ w[j] = w[k]
  <2>1. IsFiniteSet(0 .. N) /\ Cardinality(0 .. N) = N + 1
    BY <1>2, FS_Interval
  <2>2. IsFiniteSet(Slot) /\ Cardinality(Slot) = N
    BY <1>2, FS_Interval DEF Slot
  <2>3. w \in [0 .. N -> Slot]
    BY <1>1, <1>3
  <2> QED
    BY <1>2, <2>1, <2>2, <2>3, FS_PigeonHole
<1>7. PICK j \in 0 .. N, k \in 0 .. N : j < k /\ w[j] = w[k]
  BY <1>2, <1>6
<1>8. rank[w[j]] > rank[w[k]] /\ rank[w[k]] \in Int
  BY <1>3, <1>5, <1>7
<1> QED
  BY <1>7, <1>8

(* Every entry of a bucket is met on the walk along its list.              *)
LEMMA WalksMeet ==
    ASSUME HashTypeOK, Linked, EveryListEnds, NEW i \in Slot
    PROVE  \E k \in 0 .. NumEntries : Walk(hash, tlb[i].hi.page)[k] = i
<1> DEFINE page == tlb[i].hi.page
           N == NumEntries
           w == Walk(hash, page)
           U == {j \in Slot : /\ TLB_HASH[tlb[j].hi.page] = TLB_HASH[page]
                              /\ \A k \in 0 .. N : w[k] # j}
<1> SUFFICES ASSUME i \in U PROVE FALSE
  OBVIOUS
<1>1. /\ page \in Page /\ TLB_HASH[page] \in Bucket /\ hash \in Lists
      /\ N \in Nat /\ None \notin Slot
  BY HashAssumption, TlbAssumption, Slots DEF HashTypeOK, Entry, Hi
<1>2. PICK rank \in [Slot -> Int] : Falls(hash, rank)
  BY DEF EveryListEnds
<1>3. /\ w[0] = hash.head[TLB_HASH[page]]
      /\ \A k \in 1 .. N : w[k] = Along(hash, w[k - 1])
      /\ w[N] = None
  BY <1>1, <1>2, WalkIs, WalksEnd
<1>4. PICK j \in U : \A k \in U : rank[k] =< rank[j]
  BY Highest
<1> HIDE DEF w
<1>5. j \in Slot /\ TLB_HASH[tlb[j].hi.page] = TLB_HASH[page]
      /\ \A k \in 0 .. N : w[k] # j
  BY <1>4
<1>6. CASE hash.prev[j] = None
  <2>1. hash.head[TLB_HASH[page]] = j
    BY <1>1, <1>5, <1>6 DEF Linked
  <2> QED
    BY <1>1, <1>3, <1>5, <2>1
<1>7. CASE hash.prev[j] # None
  <2> DEFINE p == hash.prev[j]
  <2>1. p \in Slot
    BY <1>1, <1>5, <1>7 DEF Lists, Idx
  <2>2. hash.next[p] = j
    BY <1>5, <2>1 DEF Linked
  <2>3. TLB_HASH[tlb[p].hi.page] = TLB_HASH[page]
    BY <1>5, <2>1, <2>2 DEF Linked
  <2>4. rank[p] > rank[j] /\ rank[p] \in Int /\ rank[j] \in Int
    BY <1>2, <1>5, <2>1, <2>2 DEF Falls
  <2>5. p \notin U
    BY <1>4, <2>4
  <2>6. PICK k \in 0 .. N : w[k] = p
    BY <2>1, <2>3, <2>5
  <2>7. k # N
    BY <1>1, <1>3, <2>1, <2>6
  <2>8. k + 1 \in 1 .. N /\ k + 1 \in 0 .. N /\ (k + 1) - 1 = k
    BY <1>1, <2>7
  <2>9. w[k + 1] = j
    BY <1>1, <1>3, <2>1, <2>2, <2>6, <2>8 DEF Along
  <2> QED
    BY <1>5, <2>8, <2>9
<1> QED
  BY <1>6, <1>7

(* A search finds an entry that matches if there is one, and no other.     *)
LEMMA SearchAnswers ==
    ASSUME HashTypeOK, Linked, EveryListEnds, NEW page \in Page
    PROVE  Search(page) \in Answers(page)
<1> DEFINE N == NumEntries
           w == Walk(hash, page)
           Stops(k) == w[k] \in Slot /\ Matches(tlb[w[k]], page, entryHi.asid)
           First(k) == Stops(k) /\ \A j \in 0 .. k - 1 : ~ Stops(j)
           f == CHOOSE k \in 0 .. N : First(k)
           S == {k \in 0 .. N : Stops(k)}
<1>1. Search(page) = IF \E k \in 0 .. N : First(k) THEN w[f] ELSE None
  BY DEF Search, SearchIn
<1>2. N \in Nat
  BY TlbAssumption
<1>3. CASE \E k \in 0 .. N : First(k)
  <2>1. First(f)
    BY <1>3
  <2>2. Search(page) \in Found(page)
    BY <1>1, <1>3, <2>1 DEF Found
  <2> QED
    BY <2>2 DEF Answers
<1>4. CASE ~ \E k \in 0 .. N : First(k)
  <2>1. S = {}
    <3> SUFFICES ASSUME S # {} PROVE FALSE
      OBVIOUS
    <3>1. S \subseteq Nat
      BY <1>2
    <3>2. PICK k \in S : \A j \in S : k =< j
      BY <3>1, Least
    <3>3. ASSUME NEW j \in 0 .. k - 1 PROVE ~ Stops(j)
      <4>1. k \in 0 .. N /\ j \in 0 .. N /\ ~ (k =< j)
        BY <1>2, <3>2, <3>3
      <4> QED
        BY <3>2, <4>1
    <3>4. k \in 0 .. N /\ Stops(k)
      BY <3>2
    <3> HIDE DEF Stops
    <3> QED
      BY <1>4, <3>3, <3>4
  <2>2. ASSUME NEW i \in Found(page) PROVE FALSE
    <3>1. i \in Slot /\ tlb[i].hi.page = page /\ Matches(tlb[i], page, entryHi.asid)
      BY DEF Found, Matches
    <3>2. PICK k \in 0 .. N : w[k] = i
      BY <3>1, WalksMeet
    <3>3. k \in S
      BY <3>1, <3>2
    <3> QED
      BY <2>1, <3>3
  <2>3. Search(page) = None
    BY <1>1, <1>4
  <2> QED
    BY <2>2, <2>3 DEF Answers
<1> QED
  BY <1>3, <1>4

(* The code answers as listed, but for a store that is denied.             *)
LEMMA CodeAnswers ==
    ASSUME NEW i, NEW page, NEW op \in Op, NEW user \in BOOLEAN
    PROVE  LET answer == cpuPrvMemTranslate(i, page, op = "store", user)
           IN  IF Denied(page, user) THEN answer = AddressError("load")
                                     ELSE answer = Listed(i, page, op, user)
<1>1. CASE Denied(page, user)
  BY <1>1 DEF cpuPrvMemTranslate, AddressError
<1>2. CASE ~ Denied(page, user)
  BY <1>2 DEF cpuPrvMemTranslate, Listed, TlbRefill, TlbInvalid,
              TlbModified, Mapped, Op
<1> QED
  BY <1>1, <1>2

LEMMA TranslateMaps ==
    ASSUME HashTypeOK, Linked, EveryListEnds, NEW page \in Page,
           NEW op \in Op, NEW user \in BOOLEAN, HashTranslate(page, op, user)
    PROVE  Next
<1> DEFINE answer == cpuPrvMemTranslate(Search(page), page, op = "store", user)
<1>1. Search(page) \in Answers(page)
  BY SearchAnswers
<1>2. Translate(answer, page, op, user)
  BY DEF HashTranslate
<1>3. answer \in Translations(Search(page), page, op, user)
  <2>1. CASE ~ Denied(page, user)
    BY <2>1, CodeAnswers DEF Translations
  <2>2. CASE Denied(page, user)
    <3>1. /\ answer = AddressError("load")
          /\ AddressError("fetch") = AddressError("load")
      BY <2>2, CodeAnswers DEF AddressError
    <3>2. Listed(Search(page), page, "load", user) = AddressError("load")
      BY <2>2 DEF Listed
    <3> HIDE DEF answer
    <3> QED
      BY <2>2, <3>1, <3>2 DEF Translations, Op
  <2> QED
    BY <2>1, <2>2
<1> HIDE DEF answer
<1>4. UNCHANGED <<tlb, entryLo, index>>
  BY <1>2 DEF Translate
<1>5. Access
  BY <1>1, <1>2, <1>3, <1>4 DEF Access
<1> QED
  BY <1>5 DEF Next

(* What a hit shows is what the table would answer to the kernel now. *)
LEMMA HitMaps ==
    ASSUME MmuTypeOK, Linked, EveryListEnds, CachedIsMapped,
           NEW page \in Page, NEW user \in BOOLEAN, FetchHit(page, user)
    PROVE  Next
<1>1. PICK w \in Holding(page) :
         shown' = Show(Reached(icache[w].frame), page, "fetch", user)
  BY DEF FetchHit
<1>2. w \in Way /\ icache[w].page = page /\ icache[w] # Empty
  BY MmuAssumption DEF Holding, Empty
<1> DEFINE answer == Reached(icache[w].frame)
<1>3. answer = cpuPrvMemTranslate(Search(page), page, FALSE, FALSE)
  BY <1>2 DEF CachedIsMapped
<1>4. answer = Listed(Search(page), page, "fetch", FALSE)
  BY <1>3, CodeAnswers DEF Op, Denied
<1>5. answer.kind = "frame"
  BY DEF Reached
<1> HIDE DEF answer
<1>6. answer \in Translations(Search(page), page, "fetch", user)
  <2>1. CASE Denied(page, user)
    BY <1>4, <1>5, <2>1 DEF Translations
  <2>2. CASE ~ Denied(page, user)
    BY <1>4, <2>2 DEF Translations, Listed, Denied
  <2> QED
    BY <2>1, <2>2
<1>7. Translate(answer, page, "fetch", user)
  BY <1>1, <1>5 DEF Translate, FetchHit, answer
<1>8. Search(page) \in Answers(page)
  BY SearchAnswers DEF MmuTypeOK
<1>9. UNCHANGED <<tlb, entryLo, index>>
  BY DEF FetchHit
<1>10. Access
  BY <1>6, <1>7, <1>8, <1>9 DEF Access, Op
<1> QED
  BY <1>10 DEF Next

LEMMA StepIsTlbStep ==
    ASSUME MmuTypeOK, Linked, EveryListEnds, CachedIsMapped, [MmuNext]_mmuVars
    PROVE  [Next]_tlbVars
<1>0. HashTypeOK
  BY DEF MmuTypeOK
<1>1. ASSUME NEW page \in Page, NEW user \in BOOLEAN, FetchHit(page, user)
      PROVE  Next
  BY <1>1, HitMaps
<1>2. ASSUME NEW page \in Page, NEW user \in BOOLEAN, FetchMiss(page, user)
      PROVE  Next
  BY <1>0, <1>2, TranslateMaps DEF FetchMiss, Op
<1>3. ASSUME NEW page \in Page, NEW op \in Op, NEW user \in BOOLEAN,
             NEW isolated \in {FALSE, op = "store"},
             DataAccess(page, op, user, isolated)
      PROVE  Next
  BY <1>0, <1>3, TranslateMaps DEF DataAccess
<1>4. CASE MmuTlbwi
  BY <1>4 DEF MmuTlbwi, HashTlbwi, HashWrite, Next
<1>5. CASE MmuTlbwr
  BY <1>5 DEF MmuTlbwr, HashTlbwr, HashWrite, Next
<1>6. CASE MmuTlbr
  BY <1>6 DEF MmuTlbr, HashTlbr, Next
<1>7. CASE MmuTlbp
  <2>1. entryHi.page \in Page
    BY <1>0 DEF HashTypeOK, Hi
  <2> QED
    BY <1>0, <1>7, <2>1, SearchAnswers DEF MmuTlbp, HashTlbp, Next
<1>8. CASE MmuSetIndex
  BY <1>8 DEF MmuSetIndex, SetIndexReg, Next
<1>9. CASE MmuSetEntryHi
  BY <1>9 DEF MmuSetEntryHi, SetEntryHiReg, Next
<1>10. CASE MmuSetEntryLo
  BY <1>10 DEF MmuSetEntryLo, SetEntryLoReg, Next
<1>11. CASE UNCHANGED mmuVars
  BY <1>11 DEF mmuVars, tlbVars
<1> QED
  BY <1>1, <1>2, <1>3, <1>4, <1>5, <1>6, <1>7, <1>8, <1>9, <1>10, <1>11
     DEF MmuNext

(* The hashed TLB and the cache above it answer as an unordered table of   *)
(* entries would: a walk meets every entry of its bucket and ends, so that *)
(* a search finds an entry that matches whenever there is one, and what    *)
(* the cache serves is what the table would answer now (cpu.c:526-612,     *)
(* icache.c:39-86).                                                        *)
THEOREM HashedIsTable == MmuSpec => ImplementsTlb
<1> DEFINE I == MmuTypeOK /\ Linked /\ EveryListEnds /\ CachedIsMapped
<1>1. MmuInit => I /\ Init
  BY InitType, InitLinked, InitEnds, InitMapped DEF MmuInit, HashInit
<1>2. I /\ [MmuNext]_mmuVars => I'
  <2>1. I /\ [MmuNext]_mmuVars => EveryListEnds'
    BY StepEnds
  <2> QED
    BY <2>1, StepType, StepLinked, StepMapped
<1>3. I /\ [MmuNext]_mmuVars => [Next]_tlbVars
  BY StepIsTlbStep
<1> QED
  BY <1>1, <1>2, <1>3, PTL DEF MmuSpec, ImplementsTlb, TlbSpec
=============================================================================
