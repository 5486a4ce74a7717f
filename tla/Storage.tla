------------------------------- MODULE Storage -------------------------------
(***************************************************************************)
(* The disk of the emulated machine: the hypercalls of                     *)
(* emulator/soc/soc_rp2040.c over the glue of sd/sd.c, and the driver of   *)
(* module SdSpi below them.  The library's own glue (disk_read and the     *)
(* rest, src/no-OS-FatFS-SD-SPI-RPi-Pico/src/source/glue.c) serves a       *)
(* second client, which takes its turn.                                    *)
(***************************************************************************)
EXTENDS SdSpi

VARIABLES
    booted,   \* sdCardInit has been called
    client,   \* whose call the driver serves
    ram,      \* the memory a transfer of the machine reads or writes
    mDiskBuf, \* the one buffer of the hypercalls
    told      \* what the last call told its caller

glue == <<booted, client, ram, mDiskBuf>>
all == <<vars, glue, told>>

Quiet == [who |-> "nobody", op |-> "none", sector |-> 0, ok |-> TRUE,
          hurt |-> FALSE]

(* sdrc2dresult. *)
sdrc2dresult(status) ==
    CASE status = "NONE" -> "RES_OK"
      [] status \in {"UNUSABLE", "NO_RESPONSE", "NO_DEVICE"} -> "RES_NOTRDY"
      [] status \in {"PARAMETER", "UNSUPPORTED"} -> "RES_PARERR"
      [] OTHER -> "RES_ERROR"

Serves(c) == /\ client = "nobody"
             /\ client' = c
             /\ told' = Quiet
             /\ UNCHANGED <<booted, ram>>

(* startEmu calls sdCardInit once, and goes on whatever becomes of it. *)
sdCardInit == /\ ~ booted
              /\ BeginInit
              /\ Serves("start")
              /\ UNCHANGED mDiskBuf

Started == /\ client = "start"
           /\ Returns
           /\ booted' = TRUE
           /\ client' = "nobody"
           /\ UNCHANGED <<ram, mDiskBuf, told>>

Alone(b) == [Blank EXCEPT ![1] = b]

(* H_STOR_READ up to sdSecRead. *)
StorRead(s) == /\ booted
               /\ BeginTransfer("read", s, 1, Alone(mDiskBuf))
               /\ Serves("machine")
               /\ UNCHANGED mDiskBuf

(* H_STOR_WRITE copies memory to the buffer before sdSecWrite. *)
StorWrite(s) == /\ booted
                /\ BeginTransfer("write", s, 1, Alone(ram))
                /\ Serves("machine")
                /\ mDiskBuf' = ram

StorGetSize == /\ booted
               /\ BeginSize
               /\ Serves("machine")
               /\ UNCHANGED mDiskBuf

(* massStorageAccess returns true whatever the driver returned. *)
Reported == TRUE

Result(ok) == told' = [who |-> client, op |-> call.op, sector |-> call.sector,
                       ok |-> ok, hurt |-> call.hurt]

(* Mutant: the copy to memory comes before the transfer. *)
StorDone_early == /\ client = "machine"
                  /\ Returns
                  /\ Result(Reported)
                  /\ client' = "nobody"
                  /\ IF call.op = "read"
                       THEN mDiskBuf' = buf[1] /\ ram' = mDiskBuf
                       ELSE UNCHANGED <<mDiskBuf, ram>>
                  /\ UNCHANGED booted

(* The rest of a hypercall: what was read is copied to memory. *)
StorDone == /\ client = "machine"
            /\ Returns
            /\ Result(Reported)
            /\ client' = "nobody"
            /\ IF call.op = "read"
                 THEN mDiskBuf' = buf[1] /\ ram' = buf[1]
                 ELSE UNCHANGED <<mDiskBuf, ram>>
            /\ UNCHANGED booted

(* The machine writes its memory. *)
StoreRam(d) == /\ client = "nobody"
               /\ ram' = d
               /\ told' = Quiet
               /\ UNCHANGED <<vars, booted, client, mDiskBuf>>

(* The library's calls. *)
Written(n) == {b \in Buffer : \A i \in Index : b[i] = Garbage <=> i > n}

disk_initialize == /\ booted
                   /\ BeginInit
                   /\ Serves("library")
                   /\ UNCHANGED mDiskBuf

disk_read(s, n) == /\ booted
                   /\ BeginTransfer("read", s, n, Blank)
                   /\ Serves("library")
                   /\ UNCHANGED mDiskBuf

disk_write(s, n, b) == /\ booted
                       /\ BeginTransfer("write", s, n, b)
                       /\ Serves("library")
                       /\ UNCHANGED mDiskBuf

disk_ioctl == /\ booted
              /\ BeginSize
              /\ Serves("library")
              /\ UNCHANGED mDiskBuf

DiskDone == /\ client = "library"
            /\ Returns
            /\ Result(CASE call.op = "init" -> ~ sd.noinit
                        [] call.op = "size" -> call.size # 0
                        [] OTHER -> sdrc2dresult(call.status) = "RES_OK")
            /\ client' = "nobody"
            /\ UNCHANGED <<booted, ram, mDiskBuf>>

(* The static variables, and a card that has just been given power. *)
Init ==
    /\ card \in [kind : Kinds, flaws : FlawSets, mode : {"native"},
                 crc : {FALSE}, busy : {FALSE}, error : {FALSE},
                 stream : {"none"}, at : {0}, store : [Sector -> Data]]
    /\ sd = [noinit |-> TRUE, type |-> "NONE", sectors |-> 0]
    /\ pc = "idle"
    /\ call = NoCall
    /\ buf = Blank
    /\ tries = 0
    /\ faults = 0
    /\ booted = FALSE
    /\ client = "nobody"
    /\ ram \in Data
    /\ mDiskBuf \in Data
    /\ told = Quiet

Hypercall == \/ \E s \in 0 .. NumSectors : StorRead(s) \/ StorWrite(s)
             \/ StorGetSize
             \/ StorDone

Library ==
    \/ disk_initialize \/ disk_ioctl \/ DiskDone
    \/ \E s \in 0 .. NumSectors, n \in Index :
          disk_read(s, n) \/ \E b \in Written(n) : disk_write(s, n, b)

Serving == Driver /\ UNCHANGED <<glue, told>>

Next == \/ sdCardInit \/ Started
        \/ Hypercall \/ Library
        \/ Serving
        \/ \E d \in Data : StoreRam(d)
        \/ (Warmed \/ Asserts) /\ UNCHANGED <<glue, told>>

Spec == Init /\ [][Next]_all

-----------------------------------------------------------------------------
SameUnits == sd.type = "V2HC" <=> card.kind = "V2HC"

(* A card that is served as initialized is ready and the driver knows its  *)
(* size, though the loop that waits for it may end without an error while  *)
(* the card is idle: CMD9 or CMD16 then fail (sd_card_spi.c:1021-1032,     *)
(* 1098-1116).                                                             *)
InitSound == ~ sd.noinit => card.mode = "ready" /\ sd.sectors = NumSectors

Transferring == call.op \in {"read", "write"}

D == INSTANCE BlockDevice WITH
    disk <- card.store,
    call <- IF Transferring
              THEN [op |-> call.op, sector |-> call.sector,
                    count |-> call.count, done |-> call.done]
              ELSE [op |-> "none", sector |-> 0, count |-> 0, done |-> 0],
    answer <- IF Transferring /\ pc = "returned"
                THEN IF call.status = "NONE" THEN "ok" ELSE "failed"
                ELSE "none",
    hurt <- Transferring /\ call.hurt,
    ready <- ~ sd.noinit,
    trusted <- ~ sd.noinit /\ card.crc /\ SameUnits

ImplementsDevice == D!Spec

Served(op) == /\ told.who = "machine"
              /\ told.op = op
              /\ ~ told.hurt
              /\ ~ sd.noinit
              /\ told.sector < NumSectors
              /\ card.crc
              /\ SameUnits

(* A hypercall that was left in peace moves a sector between card and      *)
(* memory by way of the one buffer, whatever earlier calls have left in it *)
(* (soc_rp2040.c:185-211).                                                 *)
MachineTransfers == Served("read") \/ Served("write") =>
                        ram = card.store[told.sector]

Position == [here \in {"idle", "returned", "release", "cmd13", "cmd12",
                       "rblock", "wblock", "rcmd", "wcmd", "acmd23", "cmd16",
                       "cmd9", "ccs", "acmd41", "cmd58", "cmd59", "cmd8",
                       "cmd0", "asserted"} |->
    CASE here = "idle" -> 0     [] here = "returned" -> 1
      [] here = "release" -> 2  [] here \in {"cmd13", "cmd12"} -> 3
      [] here \in {"rblock", "wblock"} -> 4
      [] here \in {"rcmd", "wcmd", "cmd16"} -> 5
      [] here \in {"acmd23", "cmd9"} -> 6
      [] here = "ccs" -> 7      [] here = "acmd41" -> 8
      [] here = "cmd58" -> 9    [] here = "cmd59" -> 10
      [] here = "cmd8" -> 11    [] here = "cmd0" -> 12
      [] here = "asserted" -> 13]

Left == CASE pc = "cmd0" -> IdleRetries - tries
          [] pc = "acmd41" -> MaxPolls - tries
          [] pc \in {"rblock", "wblock"} -> call.count - call.done
          [] OTHER -> 1

(* Whatever card and bus do, each step of the driver brings its call       *)
(* nearer to its end: no loop waits for an answer for ever                 *)
(* (sd_card_spi.c:415, 785, 904, 947, 1024).  There is one place a call    *)
(* does not come back from, the assertion on the CSD (639), and only a     *)
(* card with a structure other than 0 and 1 leads there.                   *)
EveryCallEnds ==
    [][Driver => \/ /\ Left > 0
                    /\ \/ Position[pc'] < Position[pc]
                       \/ pc' = pc /\ Left' < Left
                 \/ /\ pc = "cmd9"
                    /\ pc' = "asserted"
                    /\ "csd" \in card.flaws]_all
=============================================================================
