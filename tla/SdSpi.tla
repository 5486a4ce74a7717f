-------------------------------- MODULE SdSpi --------------------------------
(***************************************************************************)
(* The driver of an SD card on an SPI bus (src/no-OS-FatFS-SD-SPI-RPi-Pico *)
(* /src/sd_driver/SPI/sd_card_spi.c) with a card that answers it.  A step  *)
(* is one command with its retries (sd_cmd), or one block of data.         *)
(*                                                                         *)
(* The card is external: what the driver takes for granted of an SD card   *)
(* in SPI mode.  Of the bus, a command may be lost or arrive damaged, a    *)
(* block of data may be damaged either way, a card may be slow beyond each *)
(* timeout.  Short responses arrive intact.  Deselecting a card ends what  *)
(* it was transferring.  A card may be one the driver does not accept.     *)
(***************************************************************************)
EXTENDS Integers

CONSTANTS
    Kinds,       \* the kinds of card: "V1", "V2", "V2HC"
    FlawSets,    \* what cards may have that the driver does not take
    NumSectors,  \* blocks the card holds
    BlockSize,   \* bytes of a block: 512
    MaxBlocks,   \* the longest transfer
    Data,        \* contents of a block
    Garbage,     \* the contents of a damaged block
    IdleRetries, \* SD_CMD0_GO_IDLE_STATE_RETRIES: 10
    MaxPolls,    \* ACMD41 that fit into SD_COMMAND_TIMEOUT
    MaxFaults    \* bound: faults of card and bus in a behaviour

ASSUME SdAssumption ==
    /\ Kinds \subseteq {"V1", "V2", "V2HC"}
    /\ FlawSets \subseteq SUBSET {"echo", "volts", "csd"}
    /\ NumSectors \in Nat \ {0}
    /\ BlockSize \in Nat \ {0, 1}
    /\ MaxBlocks \in Nat \ {0}
    /\ Garbage \notin Data
    /\ IdleRetries \in Nat \ {0}
    /\ MaxPolls \in Nat \ {0}
    /\ MaxFaults \in Nat

VARIABLES
    card,    \* the card
    sd,      \* sd_card_t: NOINIT of m_Status, card_type, sectors
    pc,      \* where the driver is
    call,    \* the call it serves
    buf,     \* the caller's buffer
    tries,   \* passes of the loop the driver is in
    faults   \* faults so far

vars == <<card, sd, pc, call, buf, tries, faults>>

Sector == 0 .. NumSectors - 1
Block == Data \cup {Garbage}
Index == 1 .. MaxBlocks
Buffer == [Index -> Block]

Flag == {"idle", "erase", "illegal", "crc", "address"}
NoResponse == Flag \cup {"no response"}  \* 0xFF: every bit is set

Single == {"CMD17", "CMD24"}
Reading == {"CMD17", "CMD18"}
Transfers == Reading \cup {"CMD24", "CMD25"}
-----------------------------------------------------------------------------
(* The card. *)
(* The flaws of a card: "echo", it does not send the pattern of CMD8 back; *)
(* "volts", 3.3 V is not in its OCR; "csd", the structure of its CSD is    *)
(* neither 0 nor 1.                                                        *)
Cards == [kind : Kinds, flaws : FlawSets,
          mode : {"native", "idle", "warming", "ready"},
          crc : BOOLEAN, busy : BOOLEAN, error : BOOLEAN,
          stream : Transfers \cup {"none"}, at : 0 .. NumSectors,
          store : [Sector -> Block]]

Idle(c) == IF c.mode = "ready" THEN {} ELSE {"idle"}

Answer(r, c) == [r |-> r, card |-> c, cost |-> 0, hurt |-> FALSE]

(* The block a card takes an address for: HC cards count in blocks. *)
Addressed(c, arg) ==
    {s \in Sector : arg = IF c.kind = "V2HC" THEN s ELSE s * BlockSize}

Opens(c, cmd, s) == [c EXCEPT !.stream = cmd, !.at = s]

(* What a card makes of a command that arrives. *)
Obeys(c, cmd, arg) ==
    IF c.busy THEN {Answer({}, c)}
    ELSE IF cmd = "CMD0"
      THEN {Answer({"idle"}, [c EXCEPT !.mode = "idle", !.crc = FALSE,
                                       !.stream = "none"])}
    ELSE IF c.mode = "native" THEN {Answer(NoResponse, c)}
    ELSE IF cmd = "CMD8" /\ c.kind = "V1"
      THEN {Answer(Idle(c) \cup {"illegal"}, c)}
    ELSE IF cmd = "CMD59" THEN {Answer(Idle(c), [c EXCEPT !.crc = TRUE])}
    ELSE IF cmd = "ACMD41"
      THEN {Answer(Idle(c), IF c.mode = "idle" THEN [c EXCEPT !.mode = "warming"]
                                               ELSE c)}
    ELSE IF cmd \in {"CMD8", "CMD58"} THEN {Answer(Idle(c), c)}
    ELSE IF c.mode # "ready" THEN {Answer({"idle", "illegal"}, c)}
    ELSE IF cmd \in Transfers
      THEN IF Addressed(c, arg) = {} THEN {Answer({"address"}, c)}
           ELSE {Answer({}, Opens(c, cmd, s)) : s \in Addressed(c, arg)}
    ELSE IF cmd = "CMD12" THEN {Answer({}, [c EXCEPT !.stream = "none"])}
    ELSE {Answer({}, c)}

(* A damaged command: the card notices if it checks CRCs, and takes it for *)
(* something else if it does not.  CMD0 and CMD8 are checked always.       *)
Mistakes(c, cmd) ==
    IF c.busy \/ c.mode = "native" THEN {}
    ELSE IF c.crc \/ cmd \in {"CMD0", "CMD8"}
      THEN {Answer(Idle(c) \cup {"crc"}, c)}
    ELSE {Answer(Idle(c) \cup {"illegal"}, c)} \cup
         (IF cmd \in Transfers /\ c.mode = "ready"
            THEN {Answer({}, Opens(c, cmd, s)) : s \in Sector} ELSE {})

Harmed(x) == [x EXCEPT !.cost = 1, !.hurt = TRUE]

(* One exchange; of an application command, the CMD55 before may be lost. *)
Exchange(c, cmd, arg) ==
    Obeys(c, cmd, arg) \cup {Harmed(x) : x \in Mistakes(c, cmd)} \cup
    (IF cmd \in {"ACMD23", "ACMD41"} /\ ~ c.busy
       THEN {Harmed(Answer(Idle(c) \cup {"illegal"}, c))} ELSE {})

(* sd_wait_ready: the card is ready, or the time is over.  Nobody asks     *)
(* which of the two it was.                                                *)
Wait(c) == {Answer({}, [c EXCEPT !.busy = FALSE])} \cup
           (IF c.busy THEN {Harmed(Answer({}, c))} ELSE {})

(* Before CMD12 nothing is waited for. *)
Waited(c, cmd) == IF cmd = "CMD12" THEN {Answer({}, c)} ELSE Wait(c)

(* Three tries after a wait: the answer to one of them, or none. *)
After(w, lost, x) ==
    [x EXCEPT !.cost = x.cost + w.cost + lost, !.hurt = x.hurt \/ w.hurt]

Tried(w, cmd, arg) ==
    {After(w, lost, x) : lost \in 0 .. 2,
        x \in {y \in Exchange(w.card, cmd, arg) : y.r # NoResponse}}
    \cup {[r |-> NoResponse, card |-> w.card, cost |-> w.cost + 3,
           hurt |-> TRUE]}

(* sd_cmd: waits, and tries three times to have an answer. *)
sd_cmd(c, cmd, arg) == UNION {Tried(w, cmd, arg) : w \in Waited(c, cmd)}

(* What sd_cmd makes of the first byte of a response. *)
StatusOf(cmd, r) ==
    IF r = NoResponse THEN "NO_DEVICE"
    ELSE IF "crc" \in r /\ cmd # "ACMD23" THEN "CRC"
    ELSE IF "illegal" \in r THEN "UNSUPPORTED"
    ELSE IF "erase" \in r THEN "ERASE"
    ELSE IF "address" \in r THEN "PARAMETER"
    ELSE "NONE"
-----------------------------------------------------------------------------
(* The driver. *)
NoCall == [op |-> "none", sector |-> 0, count |-> 0, done |-> 0, size |-> 0,
           status |-> "NONE", hurt |-> FALSE]

Pays(n) == /\ faults + n =< MaxFaults
           /\ faults' = faults + n

(* The answer to a command: what it does to the card, and what it costs. *)
Takes(x) == /\ Pays(x.cost)
            /\ card' = x.card
            /\ UNCHANGED buf

Hurts(h) == [call EXCEPT !.hurt = @ \/ h]

Proceeds(there, h) == /\ call' = Hurts(h)
                      /\ pc' = there

Ends(status, h) == /\ call' = [Hurts(h) EXCEPT !.status = status]
                   /\ pc' = "release"

(* Mutant: the passes are not counted. *)
GoIdle_forever ==
    /\ pc = "cmd0"
    /\ \E x \in sd_cmd(card, "CMD0", 0) :
          /\ Takes(x)
          /\ Proceeds(IF x.r = {"idle"} THEN "cmd8" ELSE "cmd0", FALSE)
    /\ UNCHANGED <<sd, tries>>

(* sd_go_idle_state: CMD0 until the card is idle. *)
GoIdle ==
    /\ pc = "cmd0"
    /\ \E x \in sd_cmd(card, "CMD0", 0) :
          /\ Takes(x)
          /\ \/ /\ x.r = {"idle"}
                /\ Proceeds("cmd8", x.hurt)
                /\ tries' = 0
             \/ /\ x.r # {"idle"}
                /\ tries + 1 < IdleRetries
                /\ Proceeds("cmd0", FALSE)
                /\ tries' = tries + 1
             \/ /\ x.r # {"idle"}
                /\ tries + 1 = IdleRetries
                /\ Ends("NO_DEVICE", TRUE)
                /\ tries' = 0
    /\ UNCHANGED sd

(* sd_cmd8: a card that knows the command is of version 2, and must send   *)
(* the pattern back.                                                       *)
Cmd8 ==
    /\ pc = "cmd8"
    /\ \E x \in sd_cmd(card, "CMD8", 0) :
          LET answered == StatusOf("CMD8", x.r)
              status == IF answered = "NONE" /\ "echo" \in card.flaws
                          THEN "UNUSABLE" ELSE answered
          IN  /\ Takes(x)
              /\ sd' = [sd EXCEPT !.type =
                    CASE status \in {"NO_DEVICE", "CRC"} -> @
                      [] status \in {"UNSUPPORTED", "UNUSABLE"} -> "UNKNOWN"
                      [] OTHER -> "V2"]
              /\ IF status \in {"NONE", "UNSUPPORTED"}
                   THEN Proceeds("cmd59", x.hurt) ELSE Ends(status, x.hurt)
    /\ UNCHANGED tries

(* CRCs are switched on; the status of the command is overwritten. *)
CrcOn == /\ pc = "cmd59"
         /\ \E x \in sd_cmd(card, "CMD59", 1) :
               Takes(x) /\ Proceeds("cmd58", x.hurt)
         /\ UNCHANGED <<sd, tries>>

(* A card without 3.3 V is not used. *)
ReadOCR ==
    /\ pc = "cmd58"
    /\ \E x \in sd_cmd(card, "CMD58", 0) :
          LET status == StatusOf("CMD58", x.r)
              unfit  == status = "NONE" /\ "volts" \in card.flaws
          IN  /\ Takes(x)
              /\ sd' = IF unfit THEN [sd EXCEPT !.type = "UNKNOWN"] ELSE sd
              /\ IF unfit THEN Ends("UNUSABLE", x.hurt)
                 ELSE IF status = "NONE" THEN Proceeds("acmd41", x.hurt)
                 ELSE Ends(status, x.hurt)
    /\ UNCHANGED tries

(* ACMD41 until the idle bit is gone or the time is over.  A card that is  *)
(* still idle then ends the loop with no error.                            *)
Initialize ==
    /\ pc = "acmd41"
    /\ \E x \in sd_cmd(card, "ACMD41", 0) :
          LET status == StatusOf("ACMD41", x.r)
              again  == "idle" \in x.r /\ tries + 1 < MaxPolls
          IN  /\ Takes(x)
              /\ tries' = IF again THEN tries + 1 ELSE 0
              /\ sd' = IF again THEN sd
                       ELSE IF status # "NONE" \/ x.r # {}
                         THEN [sd EXCEPT !.type = "UNKNOWN"]
                       ELSE IF sd.type = "V2" THEN sd
                       ELSE [sd EXCEPT !.type = "V1"]
              /\ IF again THEN Proceeds("acmd41", FALSE)
                 ELSE IF status # "NONE" THEN Ends(status, TRUE)
                 ELSE IF sd.type = "V2" /\ x.r = {} THEN Proceeds("ccs", x.hurt)
                 ELSE Proceeds("cmd9", x.hurt \/ x.r # {})

(* A card of version 2 says whether it counts in blocks. *)
ReadCCS == /\ pc = "ccs"
           /\ \E x \in sd_cmd(card, "CMD58", 0) :
                 LET status == StatusOf("CMD58", x.r)
                 IN  /\ Takes(x)
                     /\ IF status = "NONE"
                          THEN /\ sd' = [sd EXCEPT !.type =
                                           IF card.kind = "V2HC" THEN "V2HC" ELSE @]
                               /\ Proceeds("cmd9", x.hurt)
                          ELSE UNCHANGED sd /\ Ends(status, x.hurt)
           /\ UNCHANGED tries

(* What the registers of either version come to. *)
CsdSectors == NumSectors

(* CMD9 is answered, and the block with the register follows. *)
GotCsd(x, arrives) == /\ arrives
                      /\ StatusOf("CMD9", x.r) = "NONE"
                      /\ ~ x.card.busy

(* myASSERT: my_assert_func is never left, and switches interrupts off. *)
Asserted == /\ pc' = "asserted"
            /\ UNCHANGED <<sd, call>>

(* Mutant: a size of zero is taken for a size. *)
ReadSize_unchecked ==
    /\ pc = "cmd9"
    /\ \E x \in sd_cmd(card, "CMD9", 0), arrives \in BOOLEAN :
          LET good == GotCsd(x, arrives)
              size == IF good THEN CsdSectors ELSE 0
          IN  /\ Pays(x.cost + IF arrives THEN 0 ELSE 1)
              /\ card' = x.card
              /\ IF good /\ "csd" \in card.flaws THEN Asserted
                 ELSE IF call.op = "init"
                   THEN /\ sd' = [sd EXCEPT !.sectors = size]
                        /\ Proceeds("cmd16", x.hurt)
                   ELSE /\ call' = [call EXCEPT !.size = size]
                        /\ pc' = "release"
                        /\ UNCHANGED sd
    /\ UNCHANGED <<buf, tries>>

(* in_sd_spi_sectors, for sd_spi_init and for sd_spi_sectors.  A CSD it    *)
(* does not know fails an assertion.                                       *)
ReadSize ==
    /\ pc = "cmd9"
    /\ \E x \in sd_cmd(card, "CMD9", 0), arrives \in BOOLEAN :
          LET good == GotCsd(x, arrives)
              size == IF good THEN CsdSectors ELSE 0
          IN  /\ Pays(x.cost + IF arrives THEN 0 ELSE 1)
              /\ card' = x.card
              /\ IF good /\ "csd" \in card.flaws THEN Asserted
                 ELSE IF call.op = "init"
                   THEN /\ sd' = [sd EXCEPT !.sectors = size]
                        /\ IF good THEN Proceeds("cmd16", x.hurt)
                                   ELSE Ends("NO_RESPONSE", TRUE)
                   ELSE /\ call' = [Hurts(x.hurt \/ ~ good) EXCEPT !.size = size]
                        /\ pc' = "release"
                        /\ UNCHANGED sd
    /\ UNCHANGED <<buf, tries>>

(* my_assert_func loops for ever. *)
Asserts == pc = "asserted" /\ UNCHANGED vars

(* The block length, and the card is initialized. *)
SetBlockLength ==
    /\ pc = "cmd16"
    /\ \E x \in sd_cmd(card, "CMD16", BlockSize) :
          LET status == StatusOf("CMD16", x.r)
          IN  /\ Takes(x)
              /\ sd' = [sd EXCEPT !.noinit = status # "NONE"]
              /\ Ends(status, x.hurt)
    /\ UNCHANGED tries
-----------------------------------------------------------------------------
(* Mutant: every card counts in bytes. *)
Addr_bytes == call.sector * BlockSize

(* The address of a block: cards of low capacity count in bytes. *)
Addr == IF sd.type = "V2HC" THEN call.sector ELSE call.sector * BlockSize

(* A command that opens a transfer, and the first step of the transfer. *)
Opening(cmd, there) ==
    /\ \E x \in sd_cmd(card, cmd, Addr) :
          LET status == StatusOf(cmd, x.r)
          IN  /\ Takes(x)
              /\ IF status = "NONE" THEN Proceeds(there, x.hurt)
                                    ELSE Ends(status, x.hurt)
    /\ UNCHANGED <<sd, tries>>

ReadCommand == /\ pc = "rcmd"
               /\ Opening(IF call.count > 1 THEN "CMD18" ELSE "CMD17", "rblock")

Sends(op) == card.stream \in op /\ ~ card.busy /\ card.at < NumSectors

Streamed == [card EXCEPT !.at = @ + 1,
                         !.stream = IF @ \in Single THEN "none" ELSE @]

(* A pass of the loop of in_sd_read_blocks is over; after the last one the *)
(* card has to be stopped, if it sends more than one block.                *)
ReadGoesOn(ok, h) ==
    /\ call' = [Hurts(h) EXCEPT !.done = IF ok THEN @ + 1 ELSE @,
                                !.status = IF ok THEN @ ELSE "NO_RESPONSE"]
    /\ pc' = IF ok /\ call.done + 1 < call.count THEN "rblock"
             ELSE IF call.count > 1 THEN "cmd12" ELSE "release"

(* sd_read_block: the block arrives, or damaged, which its CRC tells, or   *)
(* there is no token in time.                                              *)
ReadBlock ==
    /\ pc = "rblock"
    /\ \/ /\ Sends(Reading)
          /\ buf' = [buf EXCEPT ![call.done + 1] = card.store[card.at]]
          /\ card' = Streamed
          /\ ReadGoesOn(TRUE, FALSE)
          /\ UNCHANGED faults
       \/ /\ Sends(Reading)
          /\ buf' = [buf EXCEPT ![call.done + 1] = Garbage]
          /\ card' = Streamed
          /\ ReadGoesOn(FALSE, TRUE)
          /\ Pays(1)
       \/ /\ ReadGoesOn(FALSE, Sends(Reading))
          /\ Pays(IF Sends(Reading) THEN 1 ELSE 0)
          /\ UNCHANGED <<buf, card>>
    /\ UNCHANGED <<sd, tries>>

StopReading ==
    /\ pc = "cmd12"
    /\ \E x \in sd_cmd(card, "CMD12", 0) :
          /\ Takes(x)
          /\ Ends(IF call.status # "NONE" THEN call.status
                                          ELSE StatusOf("CMD12", x.r), x.hurt)
    /\ UNCHANGED <<sd, tries>>

(* ACMD23 before a write of several blocks; its answer is ignored. *)
PreErase == /\ pc = "acmd23"
            /\ \E x \in sd_cmd(card, "ACMD23", call.count) :
                  Takes(x) /\ Proceeds("wcmd", x.hurt)
            /\ UNCHANGED <<sd, tries>>

WriteCommand ==
    /\ pc = "wcmd"
    /\ Opening(IF call.count > 1 THEN "CMD25" ELSE "CMD24", "wblock")

(* What a card does with a block: it stores it, or it rejects it, which    *)
(* the data response says, or programming fails, which CMD13 tells.        *)
Programs(b) ==
    LET put(v) == [Streamed EXCEPT !.store[card.at] = v, !.busy = TRUE]
        kept(v, h) == [ok |-> TRUE, hurt |-> h, cost |-> IF h THEN 1 ELSE 0, card |-> v]
        lost(n) == [ok |-> FALSE, hurt |-> n > 0, cost |-> n, card |-> card]
    IN  IF ~ Sends({"CMD24", "CMD25"}) THEN {lost(0)}
        ELSE {kept(put(b), FALSE), lost(1),
              kept([put(Garbage) EXCEPT !.error = TRUE], TRUE)} \cup
             (IF card.crc THEN {} ELSE {kept(put(Garbage), TRUE)})

(* The last block, or the one rejected, is followed by STOP_TRAN. *)
Stopped(c, last) == IF last THEN [c EXCEPT !.stream = "none"] ELSE c

(* sd_write_block in the loop of in_sd_write_blocks. *)
WriteBlock ==
    /\ pc = "wblock"
    /\ \E x \in Programs(buf[call.done + 1]) : \E w \in Wait(x.card) :
          LET last == ~ x.ok \/ call.done + 1 = call.count
          IN  /\ Pays(x.cost + w.cost)
              /\ card' = Stopped(w.card, last)
              /\ call' = [Hurts(x.hurt \/ w.hurt) EXCEPT
                            !.done = IF x.ok THEN @ + 1 ELSE @,
                            !.status = IF x.ok THEN @ ELSE "WRITE"]
              /\ pc' = IF last THEN "cmd13" ELSE "wblock"
    /\ UNCHANGED <<sd, buf, tries>>

(* CMD13 asks the card how the write went.  What it says is the status,    *)
(* whatever the status was.                                                *)
AskStatus ==
    /\ pc = "cmd13"
    /\ \E x \in sd_cmd(card, "CMD13", 0) :
          LET said == StatusOf("CMD13", x.r)
              asked == said = "NONE" /\ ~ x.card.busy
          IN  /\ Pays(x.cost)
              /\ card' = IF asked THEN [x.card EXCEPT !.error = FALSE] ELSE x.card
              /\ Ends(IF asked /\ card.error THEN "WRITE" ELSE said, x.hurt)
    /\ UNCHANGED <<sd, buf, tries>>

(* sd_release: a card that is deselected transfers no more. *)
Release == /\ pc = "release"
           /\ card' = [card EXCEPT !.stream = "none"]
           /\ pc' = "returned"
           /\ UNCHANGED <<sd, call, buf, tries, faults>>

(* A card finishes its initialization when it likes. *)
Warmed == /\ card.mode = "warming"
          /\ card' = [card EXCEPT !.mode = "ready"]
          /\ UNCHANGED <<sd, pc, call, buf, tries, faults>>
-----------------------------------------------------------------------------
(* The three entries: what they check before the first command. *)
Fresh(op, s, n) == [NoCall EXCEPT !.op = op, !.sector = s, !.count = n,
                                  !.hurt = card.error]

BeginInit == /\ pc = "idle"
             /\ call' = Fresh("init", 0, 0)
             /\ IF sd.noinit
                  THEN sd' = [sd EXCEPT !.type = "NONE"] /\ pc' = "cmd0"
                  ELSE UNCHANGED sd /\ pc' = "returned"
             /\ UNCHANGED <<card, buf, tries, faults>>

BeginSize == /\ pc = "idle"
             /\ call' = Fresh("size", 0, 0)
             /\ pc' = "cmd9"
             /\ UNCHANGED <<card, sd, buf, tries, faults>>

Refused(s, n) == s + n > sd.sectors \/ sd.noinit

BeginTransfer(op, s, n, b) ==
    /\ pc = "idle"
    /\ buf' = b
    /\ IF Refused(s, n)
         THEN /\ call' = [Fresh(op, s, n) EXCEPT !.status = "PARAMETER"]
              /\ pc' = "returned"
         ELSE /\ call' = Fresh(op, s, n)
              /\ pc' = IF op = "read" THEN "rcmd"
                       ELSE IF n > 1 THEN "acmd23" ELSE "wcmd"
    /\ UNCHANGED <<card, sd, tries, faults>>

Blank == [i \in Index |-> Garbage]

(* The caller goes on, and its buffer is its own again. *)
Returns == /\ pc = "returned"
           /\ pc' = "idle"
           /\ call' = NoCall
           /\ buf' = Blank
           /\ UNCHANGED <<card, sd, tries, faults>>

Driver == \/ GoIdle \/ Cmd8 \/ CrcOn \/ ReadOCR \/ Initialize \/ ReadCCS
          \/ ReadSize \/ SetBlockLength
          \/ ReadCommand \/ ReadBlock \/ StopReading
          \/ PreErase \/ WriteCommand \/ WriteBlock \/ AskStatus
          \/ Release
=============================================================================
