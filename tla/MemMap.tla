------------------------------- MODULE MemMap -------------------------------
(***************************************************************************)
(* The physical memory map (emulator/memory/mem.c): a table of regions,    *)
(* each with the function that serves it.  Addresses are words: the end of *)
(* a region is computed modulo Word.                                       *)
(*                                                                         *)
(* memRegionDel has no caller and is left out.                             *)
(***************************************************************************)
EXTENDS Integers

CONSTANTS
    MaxRegions, \* MAX_MEM_REGIONS: 6
    Word,       \* one more than the greatest address
    Serves      \* the functions that serve regions

VARIABLE regions  \* gMem.regions

Slot == 0 .. MaxRegions - 1
Address == 0 .. Word - 1

Unused == [pa |-> 0, sz |-> 0, aF |-> "none"]

Region == [pa : Address, sz : Address, aF : Serves] \cup {Unused}

MapInit == regions = [i \in Slot |-> Unused]

End(r) == (r.pa + r.sz) % Word

(* The test of memAccess: a region of size zero holds no address. *)
Within(r, a) == r.pa =< a /\ a < End(r)

(* Mutant: a region that begins inside another is not noticed. *)
Intersects_half(r, new) == r.sz # 0 /\ new.pa =< r.pa /\ r.pa < End(new)

Intersects(r, new) ==
    /\ r.sz # 0
    /\ Within(r, new.pa) \/ (new.pa =< r.pa /\ r.pa < End(new))

FirstUnused(i) == /\ regions[i].sz = 0
                  /\ \A j \in Slot : j < i => regions[j].sz # 0

Addable(new) == /\ \A i \in Slot : ~ Intersects(regions[i], new)
                /\ \E i \in Slot : regions[i].sz = 0

memRegionAdd(new) ==
    IF Addable(new)
      THEN \E i \in Slot : FirstUnused(i) /\ regions' = [regions EXCEPT ![i] = new]
      ELSE UNCHANGED regions

(* memAccess asks the first region that holds the address. *)
Served(a) == \E i \in Slot : Within(regions[i], a)

Server(a) == regions[CHOOSE i \in Slot : /\ Within(regions[i], a)
                                         /\ \A j \in Slot : j < i => ~ Within(regions[j], a)].aF
-----------------------------------------------------------------------------
(* An address belongs to one region at most, so that it does not matter    *)
(* which the search of memAccess meets first (mem.c:36, 84).               *)
OneRegion ==
    \A i, j \in Slot : \A a \in {regions[i].pa, regions[j].pa} :
        Within(regions[i], a) /\ Within(regions[j], a) => i = j
=============================================================================
