--------------------------- MODULE Storage_proofs ---------------------------
(***************************************************************************)
(* Theorems about the disk, the driver of the SD card and the card, for    *)
(* every number and length of blocks, number of retries and of faults.     *)
(***************************************************************************)
EXTENDS Storage, TLAPS

(* What the card says and does in answer to a command. *)
Answers == [r : (SUBSET Flag) \cup {NoResponse}, card : Cards, cost : Nat,
            hurt : BOOLEAN]

(* What no command changes of a card. *)
SameCard(x, c) == x.kind = c.kind /\ x.store = c.store /\ x.error = c.error

(* What a command may change of a card that is open for blocks. *)
Obedient(x, c, cmd) ==
    /\ SameCard(x, c)
    /\ x.busy => c.busy
    /\ cmd \notin {"CMD0", "ACMD41"} => x.mode = c.mode
    /\ x.mode = "native" => c.mode = "native"
    /\ cmd \notin {"CMD0", "CMD59"} => x.crc = c.crc
    /\ cmd \notin Transfers =>
          x.at = c.at /\ (x.stream = c.stream \/ x.stream = "none")

LEMMA WaitIs ==
    ASSUME NEW c \in Cards, NEW w \in Wait(c)
    PROVE  /\ w.card \in {c, [c EXCEPT !.busy = FALSE]}
           /\ w.card \in Cards
           /\ w.cost \in Nat
           /\ w.hurt \in BOOLEAN
           /\ ~ w.hurt => w.card = [c EXCEPT !.busy = FALSE]
<1>1. [c EXCEPT !.busy = FALSE] \in Cards
    BY DEF Cards
<1>2. CASE w = Answer({}, [c EXCEPT !.busy = FALSE])
    BY <1>1, <1>2 DEF Answer
<1>3. CASE w = Harmed(Answer({}, c))
    BY <1>3 DEF Answer, Harmed
<1>. QED  BY <1>2, <1>3 DEF Wait

LEMMA WaitedIs ==
    ASSUME NEW c \in Cards, NEW cmd, NEW w \in Waited(c, cmd)
    PROVE  /\ w.card \in {c, [c EXCEPT !.busy = FALSE]}
           /\ w.card \in Cards
           /\ w.cost \in Nat
           /\ w.hurt \in BOOLEAN
           /\ cmd # "CMD12" /\ ~ w.hurt => w.card = [c EXCEPT !.busy = FALSE]
           /\ cmd = "CMD12" => w.card = c
<1>1. CASE cmd = "CMD12"
    <2>1. w = Answer({}, c)
        BY <1>1 DEF Waited
    <2>2. Answer({}, c).card = c /\ Answer({}, c).cost = 0
          /\ Answer({}, c).hurt = FALSE
        BY DEF Answer
    <2>3. w.card = c /\ w.cost = 0 /\ w.hurt = FALSE
        BY <2>1, <2>2
    <2>4. 0 \in Nat /\ FALSE \in BOOLEAN
        OBVIOUS
    <2>. QED  BY <1>1, <2>3, <2>4, Zenon
<1>2. CASE cmd # "CMD12"
    BY <1>2, WaitIs DEF Waited
<1>. QED  BY <1>1, <1>2

(* An answer of sd_cmd: after a wait, either that of an exchange, with     *)
(* tries that were lost before it, or none.                                *)
LEMMA CmdAnswers ==
    ASSUME NEW c, NEW cmd, NEW arg, NEW x \in sd_cmd(c, cmd, arg)
    PROVE  \E w \in Waited(c, cmd) :
              \/ \E y \in Exchange(w.card, cmd, arg), lost \in 0 .. 2 :
                    /\ y.r # NoResponse
                    /\ x = After(w, lost, y)
              \/ x = [r |-> NoResponse, card |-> w.card,
                      cost |-> w.cost + 3, hurt |-> TRUE]
<1>1. PICK w \in Waited(c, cmd) : x \in Tried(w, cmd, arg)
    BY DEF sd_cmd
<1>2. Tried(w, cmd, arg) =
         {After(w, lost, y) : lost \in 0 .. 2,
             y \in {z \in Exchange(w.card, cmd, arg) : z.r # NoResponse}}
         \cup {[r |-> NoResponse, card |-> w.card, cost |-> w.cost + 3,
                hurt |-> TRUE]}
    BY DEF Tried
<1>. QED  BY <1>1, <1>2
-----------------------------------------------------------------------------
LEMMA AnswerIs ==
    ASSUME NEW r, NEW c
    PROVE  /\ Answer(r, c).r = r /\ Answer(r, c).card = c
           /\ Answer(r, c).cost = 0 /\ Answer(r, c).hurt = FALSE
           /\ Harmed(Answer(r, c)).r = r /\ Harmed(Answer(r, c)).card = c
           /\ Harmed(Answer(r, c)).cost = 1 /\ Harmed(Answer(r, c)).hurt = TRUE
BY DEF Answer, Harmed

LEMMA IdleFlags ==
    ASSUME NEW c
    PROVE  Idle(c) \in SUBSET Flag
BY DEF Idle, Flag

LEMMA OpensIs ==
    ASSUME NEW c \in Cards, NEW cmd \in Transfers, NEW s \in Sector
    PROVE  /\ Opens(c, cmd, s) \in Cards
           /\ Obedient(Opens(c, cmd, s), c, cmd)
           /\ Opens(c, cmd, s).stream = cmd
           /\ Opens(c, cmd, s).at = s
           /\ Opens(c, cmd, s).busy = c.busy
<1>1. s \in 0 .. NumSectors
    BY SdAssumption DEF Sector
<1>2. cmd \notin {"CMD0", "ACMD41", "CMD59"}
    BY DEF Transfers, Reading
<1>. QED  BY <1>1, <1>2 DEF Opens, Cards, Obedient, SameCard

(* What a card may make of a command that arrives. *)
Outcome(y, c, cmd) ==
    /\ y \in Answers
    /\ y = Answer(y.r, y.card)
    /\ Obedient(y.card, c, cmd)

LEMMA ObeysIs ==
    ASSUME NEW c \in Cards, NEW cmd, NEW arg, NEW y \in Obeys(c, cmd, arg)
    PROVE  Outcome(y, c, cmd)
<1>1. ASSUME NEW r \in (SUBSET Flag) \cup {NoResponse}, NEW d \in Cards,
             Obedient(d, c, cmd), y = Answer(r, d)
      PROVE  Outcome(y, c, cmd)
    <2>1. y.r = r /\ y.card = d
        BY <1>1 DEF Answer
    <2>2. y \in Answers
        BY <1>1 DEF Answer, Answers
    <2>. QED  BY <1>1, <2>1, <2>2 DEF Outcome
<1>2. c \in Cards /\ Obedient(c, c, cmd)
    BY DEF Obedient, SameCard
<1>3. {} \in SUBSET Flag /\ {"idle"} \in SUBSET Flag
      /\ {"address"} \in SUBSET Flag /\ {"idle", "illegal"} \in SUBSET Flag
      /\ Idle(c) \in SUBSET Flag /\ Idle(c) \cup {"illegal"} \in SUBSET Flag
    BY IdleFlags DEF Flag
<1>4. CASE c.busy
    BY <1>1, <1>2, <1>3, <1>4 DEF Obeys
<1>5. CASE ~ c.busy /\ cmd = "CMD0"
    <2>. DEFINE d == [c EXCEPT !.mode = "idle", !.crc = FALSE, !.stream = "none"]
    <2>1. d \in Cards
        BY DEF Cards
    <2>2. Obedient(d, c, cmd)
        BY <1>5 DEF Obedient, SameCard, Cards, Transfers, Reading
    <2>3. y = Answer({"idle"}, d)
        BY <1>5 DEF Obeys
    <2>. QED  BY <1>1, <1>3, <2>1, <2>2, <2>3
<1>6. CASE ~ c.busy /\ cmd # "CMD0" /\ c.mode = "native"
    BY <1>1, <1>2, <1>6 DEF Obeys
<1>7. CASE ~ c.busy /\ cmd # "CMD0" /\ c.mode # "native"
    <2>1. CASE cmd = "CMD8"
        BY <1>1, <1>2, <1>3, <1>7, <2>1 DEF Obeys
    <2>2. CASE cmd = "CMD59"
        <3>. DEFINE d == [c EXCEPT !.crc = TRUE]
        <3>1. d \in Cards
            BY DEF Cards
        <3>2. Obedient(d, c, cmd)
            BY <2>2 DEF Obedient, SameCard, Cards, Transfers, Reading
        <3>3. y = Answer(Idle(c), d)
            BY <1>7, <2>2 DEF Obeys
        <3>. QED  BY <1>1, <1>3, <3>1, <3>2, <3>3
    <2>3. CASE cmd = "ACMD41"
        <3>. DEFINE d == IF c.mode = "idle" THEN [c EXCEPT !.mode = "warming"]
                                            ELSE c
        <3>1. d \in Cards
            BY DEF Cards
        <3>2. Obedient(d, c, cmd)
            BY <2>3 DEF Obedient, SameCard, Cards, Transfers, Reading
        <3>3. y = Answer(Idle(c), d)
            BY <1>7, <2>3 DEF Obeys
        <3>. QED  BY <1>1, <1>3, <3>1, <3>2, <3>3
    <2>4. CASE cmd = "CMD58"
        BY <1>1, <1>2, <1>3, <1>7, <2>4 DEF Obeys
    <2>5. CASE cmd \notin {"CMD8", "CMD58", "CMD59", "ACMD41"} /\ c.mode # "ready"
        BY <1>1, <1>2, <1>3, <1>7, <2>5 DEF Obeys
    <2>6. CASE cmd \in Transfers /\ c.mode = "ready"
        <3>1. cmd \notin {"CMD0", "CMD8", "CMD58", "CMD59", "ACMD41"}
            BY <2>6 DEF Transfers, Reading
        <3>2. \/ y = Answer({"address"}, c)
              \/ \E s \in Addressed(c, arg) : y = Answer({}, Opens(c, cmd, s))
            BY <1>7, <2>6, <3>1 DEF Obeys
        <3>3. \A s \in Addressed(c, arg) :
                 Opens(c, cmd, s) \in Cards /\ Obedient(Opens(c, cmd, s), c, cmd)
            BY <2>6, OpensIs DEF Addressed
        <3>. QED  BY <1>1, <1>2, <1>3, <3>2, <3>3
    <2>7. CASE cmd = "CMD12" /\ c.mode = "ready"
        <3>. DEFINE d == [c EXCEPT !.stream = "none"]
        <3>1. d \in Cards
            BY DEF Cards
        <3>2. Obedient(d, c, cmd)
            BY <2>7 DEF Obedient, SameCard, Cards, Transfers, Reading
        <3>3. y = Answer({}, d)
            BY <1>7, <2>7 DEF Obeys, Transfers, Reading
        <3>. QED  BY <1>1, <1>3, <3>1, <3>2, <3>3
    <2>8. CASE /\ cmd \notin {"CMD8", "CMD58", "CMD59", "ACMD41", "CMD12"}
               /\ cmd \notin Transfers /\ c.mode = "ready"
        BY <1>1, <1>2, <1>3, <1>7, <2>8 DEF Obeys
    <2>. QED  BY <2>1, <2>2, <2>3, <2>4, <2>5, <2>6, <2>7, <2>8
              DEF Transfers, Reading
<1>. QED  BY <1>4, <1>5, <1>6, <1>7
LEMMA MistakesIs ==
    ASSUME NEW c \in Cards, NEW cmd, NEW y \in Mistakes(c, cmd)
    PROVE  /\ Outcome(y, c, cmd)
           /\ ~ c.busy
           /\ \/ "crc" \in y.r
              \/ "illegal" \in y.r
              \/ ~ c.crc /\ cmd \in Transfers
<1>. c \in Cards /\ Obedient(c, c, cmd)
    BY DEF Obedient, SameCard
<1>. Idle(c) \cup {"illegal"} \in SUBSET Flag /\ Idle(c) \cup {"crc"} \in SUBSET Flag
     /\ {} \in SUBSET Flag
    BY IdleFlags DEF Flag
<1>1. ASSUME NEW r \in SUBSET Flag, NEW d \in Cards,
             Obedient(d, c, cmd), y = Answer(r, d)
      PROVE  Outcome(y, c, cmd) /\ y.r = r
    <2>1. y.r = r /\ y.card = d
        BY <1>1 DEF Answer
    <2>2. y \in Answers
        BY <1>1 DEF Answer, Answers
    <2>. QED  BY <1>1, <2>1, <2>2 DEF Outcome
<1>2. ~ c.busy
    BY DEF Mistakes
<1>3. CASE y = Answer(Idle(c) \cup {"crc"}, c)
    BY <1>1, <1>2, <1>3
<1>4. CASE y = Answer(Idle(c) \cup {"illegal"}, c)
    BY <1>1, <1>2, <1>4
<1>5. ASSUME ~ c.crc, cmd \in Transfers,
             NEW s \in Sector, y = Answer({}, Opens(c, cmd, s))
      PROVE  Outcome(y, c, cmd)
    <2>1. Opens(c, cmd, s) \in Cards /\ Obedient(Opens(c, cmd, s), c, cmd)
        BY <1>5, OpensIs
    <2>. QED  BY <1>1, <1>5, <2>1
<1>6. \/ y = Answer(Idle(c) \cup {"crc"}, c)
      \/ y = Answer(Idle(c) \cup {"illegal"}, c)
      \/ /\ ~ c.crc /\ cmd \in Transfers
         /\ \E s \in Sector : y = Answer({}, Opens(c, cmd, s))
    BY DEF Mistakes
<1>. QED  BY <1>2, <1>3, <1>4, <1>5, <1>6

LEMMA StatusIs ==
    ASSUME NEW cmd, NEW r \in (SUBSET Flag) \cup {NoResponse}
    PROVE  /\ StatusOf(cmd, r) \in {"NO_DEVICE", "CRC", "UNSUPPORTED", "ERASE",
                                    "PARAMETER", "NONE"}
           /\ StatusOf(cmd, r) = "NONE" => /\ r # NoResponse
                                           /\ "illegal" \notin r
                                           /\ "address" \notin r
                                           /\ cmd # "ACMD23" => "crc" \notin r
           /\ r = {} => StatusOf(cmd, r) = "NONE"
<1>1. {} # NoResponse
    BY DEF NoResponse
<1>. QED  BY <1>1 DEF StatusOf

(* An exchange: the answer of the card, or a mistake.  A mistake is taken  *)
(* for success only by a card that checks no CRCs.                         *)
LEMMA ExchangeIs ==
    ASSUME NEW c \in Cards, NEW cmd, NEW arg, NEW y \in Exchange(c, cmd, arg)
    PROVE  /\ y \in Answers
           /\ Obedient(y.card, c, cmd)
           /\ y.card.busy => y.card = c
           /\ ~ y.hurt => y \in Obeys(c, cmd, arg)
           /\ (StatusOf(cmd, y.r) = "NONE" /\ cmd # "ACMD23") =>
                 y \in Obeys(c, cmd, arg) \/ (~ c.crc /\ cmd \in Transfers)
<1>1. CASE y \in Obeys(c, cmd, arg)
    <2>1. Outcome(y, c, cmd)
        BY <1>1, ObeysIs
    <2>2. y \in Answers /\ Obedient(y.card, c, cmd)
        BY <2>1 DEF Outcome, Answers
    <2>3. ASSUME y.card.busy
          PROVE  y.card = c
        <3>1. c.busy
            BY <2>2, <2>3 DEF Obedient
        <3>2. y = Answer({}, c)
            BY <1>1, <3>1 DEF Obeys
        <3>. QED  BY <3>2 DEF Answer
    <2>. QED  BY <1>1, <2>2, <2>3
<1>2. CASE \E z \in Mistakes(c, cmd) : y = Harmed(z)
    <2>1. PICK z \in Mistakes(c, cmd) : y = Harmed(z)
        BY <1>2
    <2>2. /\ Outcome(z, c, cmd)
          /\ ~ c.busy
          /\ "crc" \in z.r \/ "illegal" \in z.r \/ (~ c.crc /\ cmd \in Transfers)
        BY MistakesIs
    <2>3. z \in Answers /\ Obedient(z.card, c, cmd)
        BY <2>2 DEF Outcome
    <2>4. y.r = z.r /\ y.card = z.card /\ y.hurt = TRUE /\ y \in Answers
        BY <2>1, <2>3 DEF Harmed, Answers
    <2>5. y \in Answers /\ Obedient(y.card, c, cmd)
        BY <2>3, <2>4
    <2>6. ~ y.card.busy
        BY <2>2, <2>5 DEF Obedient
    <2>7. y.r \in (SUBSET Flag) \cup {NoResponse}
        BY <2>5 DEF Answers
    <2>. QED  BY <2>2, <2>4, <2>5, <2>6, <2>7, StatusIs
<1>3. CASE /\ cmd \in {"ACMD23", "ACMD41"} /\ ~ c.busy
           /\ y = Harmed(Answer(Idle(c) \cup {"illegal"}, c))
    <2>. DEFINE r == Idle(c) \cup {"illegal"}
    <2>0. r \in SUBSET Flag
        BY IdleFlags DEF Flag
    <2>. HIDE DEF r
    <2>1. y = [r |-> r, card |-> c, cost |-> 1, hurt |-> TRUE]
        BY <1>3 DEF Harmed, Answer, r
    <2>2. y.r = r /\ y.card = c /\ y.hurt = TRUE /\ y \in Answers
        BY <2>0, <2>1 DEF Answers
    <2>3. y \in Answers /\ Obedient(y.card, c, cmd) /\ "illegal" \in y.r
          /\ y.r \in (SUBSET Flag) \cup {NoResponse}
        BY <2>0, <2>2 DEF Obedient, SameCard, r
    <2>. QED  BY <1>3, <2>1, <2>2, <2>3, StatusIs
<1>. QED  BY <1>1, <1>2, <1>3 DEF Exchange

LEMMA AfterIs ==
    ASSUME NEW w, w.cost \in Nat, w.hurt \in BOOLEAN,
           NEW lost \in 0 .. 2, NEW y \in Answers
    PROVE  /\ After(w, lost, y) \in Answers
           /\ After(w, lost, y).r = y.r
           /\ After(w, lost, y).card = y.card
           /\ ~ After(w, lost, y).hurt => ~ y.hurt /\ ~ w.hurt
<1>. DEFINE n == y.cost + w.cost + lost
            h == y.hurt \/ w.hurt
<1>1. n \in Nat /\ h \in BOOLEAN /\ (~ h => ~ y.hurt /\ ~ w.hurt)
    BY DEF Answers
<1>2. After(w, lost, y) = [y EXCEPT !.cost = n, !.hurt = h]
    BY DEF After
<1>. HIDE DEF n, h
<1>. QED  BY <1>1, <1>2 DEF Answers

(* Whom an answer is from: undisturbed, and one that is taken for success. *)
Heard(x, c, cmd, arg) ==
    /\ ~ x.hurt =>
          \E y \in Obeys(IF cmd = "CMD12" THEN c
                          ELSE [c EXCEPT !.busy = FALSE], cmd, arg) :
             y.r = x.r /\ y.card = x.card
    /\ (StatusOf(cmd, x.r) = "NONE" /\ cmd # "ACMD23") =>
          \/ ~ c.crc /\ cmd \in Transfers
          \/ \E d \in {c, [c EXCEPT !.busy = FALSE]} :
                \E y \in Obeys(d, cmd, arg) : y.r = x.r /\ y.card = x.card

(* A command, with its wait and its tries.                                 *)
LEMMA CmdIs ==
    ASSUME NEW c \in Cards, NEW cmd, NEW arg, NEW x \in sd_cmd(c, cmd, arg)
    PROVE  /\ x \in Answers
           /\ Obedient(x.card, c, cmd)
           /\ x.card.busy => x.card = c
           /\ Heard(x, c, cmd, arg)
<1>1. PICK w \in Waited(c, cmd) :
              \/ \E y \in Exchange(w.card, cmd, arg), lost \in 0 .. 2 :
                    /\ y.r # NoResponse
                    /\ x = After(w, lost, y)
              \/ x = [r |-> NoResponse, card |-> w.card,
                      cost |-> w.cost + 3, hurt |-> TRUE]
    BY CmdAnswers
<1>2. /\ w.card \in {c, [c EXCEPT !.busy = FALSE]}
      /\ w.card \in Cards /\ w.cost \in Nat /\ w.hurt \in BOOLEAN
      /\ cmd # "CMD12" /\ ~ w.hurt => w.card = [c EXCEPT !.busy = FALSE]
      /\ cmd = "CMD12" => w.card = c
    BY WaitedIs
<1>3. /\ w.card.busy => w.card = c
      /\ w.card.crc = c.crc
      /\ \A d : Obedient(d, w.card, cmd) => Obedient(d, c, cmd)
    <2>1. CASE w.card = c
        BY <2>1
    <2>2. CASE w.card = [c EXCEPT !.busy = FALSE]
        BY <2>2 DEF Cards, Obedient, SameCard
    <2>. QED  BY <1>2, <2>1, <2>2
<1>4. Obedient(w.card, w.card, cmd)
    BY DEF Obedient, SameCard
<1>5. ASSUME NEW y \in Exchange(w.card, cmd, arg), NEW lost \in 0 .. 2,
             y.r # NoResponse, x = After(w, lost, y)
      PROVE  /\ x \in Answers /\ Obedient(x.card, c, cmd)
             /\ x.card.busy => x.card = c
             /\ Heard(x, c, cmd, arg)
    <2>1. /\ y \in Answers /\ Obedient(y.card, w.card, cmd)
          /\ y.card.busy => y.card = w.card
          /\ ~ y.hurt => y \in Obeys(w.card, cmd, arg)
          /\ (StatusOf(cmd, y.r) = "NONE" /\ cmd # "ACMD23") =>
                y \in Obeys(w.card, cmd, arg) \/ (~ w.card.crc /\ cmd \in Transfers)
        BY <1>2, ExchangeIs
    <2>2. /\ x.r = y.r /\ x.card = y.card /\ x \in Answers
          /\ ~ x.hurt => ~ y.hurt /\ ~ w.hurt
        BY <1>2, <1>5, <2>1, AfterIs
    <2>3. ~ x.hurt => w.card = IF cmd = "CMD12" THEN c
                               ELSE [c EXCEPT !.busy = FALSE]
        BY <1>2, <2>2
    <2>4. Heard(x, c, cmd, arg)
        BY <1>2, <1>3, <1>5, <2>1, <2>2, <2>3 DEF Heard
    <2>. QED  BY <1>3, <1>5, <2>1, <2>2, <2>4
<1>6. CASE x = [r |-> NoResponse, card |-> w.card, cost |-> w.cost + 3, hurt |-> TRUE]
    <2>1. /\ x \in Answers /\ x.hurt = TRUE /\ x.card = w.card /\ x.r = NoResponse
          /\ x.r \in (SUBSET Flag) \cup {NoResponse}
        BY <1>2, <1>6 DEF Answers
    <2>2. Heard(x, c, cmd, arg)
        BY <2>1, StatusIs DEF Heard
    <2>. QED  BY <1>3, <1>4, <2>1, <2>2
<1>. QED  BY <1>1, <1>5, <1>6
-----------------------------------------------------------------------------
(* What the commands of a transfer come to. *)
LEMMA TransferIs ==
    ASSUME NEW c \in Cards, NEW cmd \in Transfers, NEW arg,
           NEW x \in sd_cmd(c, cmd, arg), c.stream = "none"
    PROVE  /\ c.crc /\ StatusOf(cmd, x.r) = "NONE" =>
                 \/ x.card.stream = "none"
                 \/ x.card.stream = cmd /\ x.card.at \in Addressed(c, arg)
           /\ ~ x.hurt /\ c.mode = "ready" /\ Addressed(c, arg) # {} =>
                 /\ StatusOf(cmd, x.r) = "NONE"
                 /\ x.card.stream = cmd
                 /\ ~ x.card.busy
<1>. DEFINE b == [c EXCEPT !.busy = FALSE]
<1>1. /\ b \in Cards /\ b.mode = c.mode /\ b.kind = c.kind
      /\ b.stream = "none" /\ b.busy = FALSE
      /\ Addressed(b, arg) = Addressed(c, arg)
    BY DEF Cards, Addressed
<1>2. cmd \notin {"CMD0", "CMD8", "CMD12", "CMD58", "CMD59", "ACMD23", "ACMD41"}
    BY DEF Transfers, Reading
<1>. HIDE DEF b
<1>3. ASSUME NEW d \in {c, b}, NEW y \in Obeys(d, cmd, arg)
      PROVE  \/ y.r = {} /\ y.card = d /\ d.busy
             \/ y.r = NoResponse /\ d.mode = "native"
             \/ "illegal" \in y.r /\ d.mode # "ready"
             \/ y.r = {"address"} /\ Addressed(c, arg) = {}
             \/ /\ y.r = {} /\ y.card.stream = cmd
                /\ y.card.at \in Addressed(c, arg)
                /\ y.card.busy = d.busy
    <2>1. CASE d.busy
        <3>1. y = Answer({}, d)
            BY <2>1 DEF Obeys
        <3>. QED  BY <2>1, <3>1 DEF Answer
    <2>2. CASE ~ d.busy /\ d.mode = "native"
        BY <2>2, <1>2 DEF Obeys, Answer
    <2>3. CASE ~ d.busy /\ d.mode \notin {"native", "ready"}
        BY <2>3, <1>2 DEF Obeys, Answer
    <2>4. CASE ~ d.busy /\ d.mode = "ready" /\ Addressed(d, arg) = {}
        <3>1. Addressed(c, arg) = {}
            BY <1>1, <2>4
        <3>2. y = Answer({"address"}, d)
            BY <2>4, <1>2 DEF Obeys
        <3>. QED  BY <3>1, <3>2 DEF Answer
    <2>5. CASE ~ d.busy /\ d.mode = "ready" /\ Addressed(d, arg) # {}
        <3>1. PICK s \in Addressed(d, arg) : y = Answer({}, Opens(d, cmd, s))
            BY <2>5, <1>2 DEF Obeys
        <3>2. s \in Addressed(c, arg) /\ s \in Sector /\ d \in Cards
            BY <1>1 DEF Addressed
        <3>3. /\ Opens(d, cmd, s).stream = cmd /\ Opens(d, cmd, s).at = s
              /\ Opens(d, cmd, s).busy = d.busy
            BY <3>2, OpensIs
        <3>4. y.r = {} /\ y.card = Opens(d, cmd, s)
            BY <3>1 DEF Answer
        <3>. QED  BY <3>2, <3>3, <3>4
    <2>. QED  BY <2>1, <2>2, <2>3, <2>4, <2>5
<1>4. x.r \in (SUBSET Flag) \cup {NoResponse}
    <2>1. x \in Answers
        BY CmdIs
    <2>. QED  BY <2>1 DEF Answers
<1>5. ASSUME c.crc, StatusOf(cmd, x.r) = "NONE"
      PROVE  \/ x.card.stream = "none"
             \/ x.card.stream = cmd /\ x.card.at \in Addressed(c, arg)
    <2>1. PICK d \in {c, b} : \E y \in Obeys(d, cmd, arg) :
                                  y.r = x.r /\ y.card = x.card
        BY <1>2, <1>5, CmdIs DEF b, Heard
    <2>2. PICK y \in Obeys(d, cmd, arg) : y.r = x.r /\ y.card = x.card
        BY <2>1
    <2>3. x.r # NoResponse /\ "illegal" \notin x.r /\ "address" \notin x.r
        BY <1>2, <1>4, <1>5, StatusIs
    <2>4. d.stream = "none"
        BY <1>1
    <2>. QED  BY <1>3, <2>2, <2>3, <2>4
<1>6. ASSUME ~ x.hurt, c.mode = "ready", Addressed(c, arg) # {}
      PROVE  /\ StatusOf(cmd, x.r) = "NONE"
             /\ x.card.stream = cmd
             /\ ~ x.card.busy
    <2>2. PICK y \in Obeys(b, cmd, arg) : y.r = x.r /\ y.card = x.card
        BY <1>2, <1>6, CmdIs DEF b, Heard
    <2>3. y.r = {} /\ y.card.stream = cmd /\ y.card.busy = FALSE
        BY <1>1, <1>3, <1>6, <2>2
    <2>. QED  BY <1>4, <2>2, <2>3, StatusIs
<1>. QED  BY <1>5, <1>6

(* A card that is ready answers STOP_TRANSMISSION and SEND_STATUS.         *)
LEMMA MeekIs ==
    ASSUME NEW c \in Cards, NEW cmd \in {"CMD12", "CMD13"}, NEW arg,
           NEW x \in sd_cmd(c, cmd, arg), c.mode = "ready", ~ x.hurt
    PROVE  StatusOf(cmd, x.r) = "NONE"
<1>. DEFINE b == IF cmd = "CMD12" THEN c ELSE [c EXCEPT !.busy = FALSE]
<1>1. b \in Cards /\ b.mode = "ready"
    BY DEF Cards
<1>2. PICK y \in Obeys(b, cmd, arg) : y.r = x.r /\ y.card = x.card
    BY CmdIs DEF Heard
<1>. HIDE DEF b
<1>3. y.r = {}
    <2>1. CASE b.busy
        BY <2>1 DEF Obeys, Answer
    <2>2. CASE ~ b.busy
        BY <1>1, <2>2 DEF Obeys, Answer, Transfers, Reading
    <2>. QED  BY <2>1, <2>2
<1>4. x.r \in (SUBSET Flag) \cup {NoResponse}
    <2>1. x \in Answers
        BY CmdIs
    <2>. QED  BY <2>1 DEF Answers
<1>. QED  BY <1>2, <1>3, <1>4, StatusIs

(* Only a card that is ready takes a block length.                         *)
LEMMA LengthIs ==
    ASSUME NEW c \in Cards, NEW arg, NEW x \in sd_cmd(c, "CMD16", arg),
           c.busy => c.mode = "ready", StatusOf("CMD16", x.r) = "NONE"
    PROVE  c.mode = "ready"
<1>. DEFINE b == [c EXCEPT !.busy = FALSE]
<1>1. b \in Cards /\ b.mode = c.mode /\ b.busy = FALSE
    BY DEF Cards
<1>2. PICK d \in {c, b} : \E y \in Obeys(d, "CMD16", arg) :
                              y.r = x.r /\ y.card = x.card
    BY CmdIs DEF Transfers, Reading, Heard
<1>3. PICK y \in Obeys(d, "CMD16", arg) : y.r = x.r /\ y.card = x.card
    BY <1>2
<1>. HIDE DEF b
<1>4. x.r \in (SUBSET Flag) \cup {NoResponse}
    <2>1. x \in Answers
        BY CmdIs
    <2>. QED  BY <2>1 DEF Answers
<1>5. x.r # NoResponse /\ "illegal" \notin x.r
    BY <1>4, StatusIs
<1>6. CASE d.busy
    BY <1>1, <1>6
<1>7. CASE ~ d.busy /\ d.mode # "ready"
    <2>1. y.r = NoResponse \/ "illegal" \in y.r
        BY <1>7 DEF Obeys, Answer
    <2>. QED  BY <1>3, <1>5, <2>1
<1>. QED  BY <1>1, <1>2, <1>6, <1>7

LEMMA TimesInjective ==
    ASSUME NEW a \in Nat, NEW b \in Nat, NEW n \in Nat \ {0}, a * n = b * n
    PROVE  a = b
OBVIOUS
-----------------------------------------------------------------------------
(* The inductive invariant, a part at a time. *)
Places == {"idle", "returned", "release", "cmd13", "cmd12", "rblock", "wblock",
           "rcmd", "wcmd", "acmd23", "cmd16", "cmd9", "ccs", "acmd41", "cmd58",
           "cmd59", "cmd8", "cmd0", "asserted"}
Statuses == {"NONE", "NO_DEVICE", "CRC", "UNSUPPORTED", "ERASE", "PARAMETER",
             "NO_RESPONSE", "WRITE", "UNUSABLE"}
Drives == [noinit : BOOLEAN, type : {"NONE", "UNKNOWN", "V1", "V2", "V2HC"},
           sectors : {0, NumSectors}]
Calls == [op : {"none", "init", "size", "read", "write"},
          sector : 0 .. NumSectors, count : 0 .. MaxBlocks,
          done : 0 .. MaxBlocks, size : {0, NumSectors},
          status : Statuses, hurt : BOOLEAN]

TypeInv ==
    /\ card \in Cards
    /\ sd \in Drives
    /\ pc \in Places
    /\ call \in Calls
    /\ buf \in Buffer
    /\ tries \in Nat
    /\ ram \in Block
    /\ mDiskBuf \in Block
    /\ client \in {"nobody", "start", "machine", "library"}

InitPlaces == {"cmd0", "cmd8", "cmd59", "cmd58", "acmd41", "ccs", "cmd16"}
Openings == {"rcmd", "acmd23", "wcmd"}
Moving == {"rblock", "wblock"}
ReadPlaces == {"rcmd", "rblock", "cmd12"}
WritePlaces == {"acmd23", "wcmd", "wblock", "cmd13"}

(* Only a card that is ready is busy, and only one that is ready and has   *)
(* been measured is taken for initialized.                                 *)
InitInv ==
    /\ card.busy => card.mode = "ready"
    /\ pc \in InitPlaces => call.op = "init" /\ sd.noinit
    /\ pc = "cmd9" => call.op = "size" \/ (call.op = "init" /\ sd.noinit)
    /\ pc = "cmd16" => sd.sectors = NumSectors
    /\ ~ sd.noinit => card.mode = "ready" /\ sd.sectors = NumSectors

(* The passes of a loop are those of the loop the driver is in. *)
CountInv ==
    /\ pc \notin {"cmd0", "acmd41"} => tries = 0
    /\ pc = "cmd0" => tries < IdleRetries
    /\ pc = "acmd41" => tries < MaxPolls

Extent == call.sector + call.count =< NumSectors

(* The call is the one that is served where the driver is. *)
CallInv ==
    /\ pc \in ReadPlaces => call.op = "read"
    /\ pc \in WritePlaces => call.op = "write"
    /\ pc = "idle" => call = NoCall
    /\ ~ Transferring => buf = Blank /\ call.done = 0
    /\ pc \in Openings => call.done = 0
    /\ pc \in Moving => call.done < call.count
    /\ pc \in Openings \cup Moving => call.status = "NONE"
    /\ Transferring => /\ call.count > 0
                       /\ call.done =< call.count
                       /\ pc # "returned" \/ call.done > 0 =>
                             Extent /\ ~ sd.noinit
    /\ (call.op = "read" /\ pc \in {"cmd12", "release", "returned"}
          /\ call.status = "NONE") => call.done = call.count

Trusted == ~ sd.noinit /\ card.crc /\ SameUnits

Opener == IF call.op = "read" THEN IF call.count > 1 THEN "CMD18" ELSE "CMD17"
                              ELSE IF call.count > 1 THEN "CMD25" ELSE "CMD24"

(* A card that is to be trusted is at the block the driver is at, if it    *)
(* transfers at all.                                                       *)
StreamInv ==
    /\ pc \in Moving \cup {"cmd12", "cmd13", "release"} \/ card.stream = "none"
    /\ Trusted /\ pc \in Moving /\ card.stream # "none" =>
          card.stream = Opener /\ card.at = call.sector + call.done

(* A transfer that was left in peace goes through, and the blocks it has   *)
(* behind it are the same on both sides.                                   *)
PeaceInv ==
    Transferring /\ ~ call.hurt =>
       /\ ~ card.error
       /\ Trusted =>
             /\ pc \in Moving => card.stream = Opener /\ ~ card.busy
             /\ pc \in {"cmd12", "cmd13", "release"} => call.done = call.count
             /\ pc \in {"cmd12", "release"} => call.status = "NONE"
             /\ pc = "returned" /\ Extent =>
                   call.done = call.count /\ call.status = "NONE"
             /\ \A i \in 1 .. call.done :
                   buf[i] = card.store[call.sector + i - 1]

GlueInv ==
    /\ client = "nobody" <=> pc = "idle"
    /\ client = "machine" /\ Transferring =>
          call.count = 1 /\ (call.op = "write" => buf[1] = ram)
    /\ told.who # "nobody" => client = "nobody"
    /\ MachineTransfers

Inv == TypeInv /\ InitInv /\ CountInv /\ CallInv /\ StreamInv /\ PeaceInv
       /\ GlueInv
-----------------------------------------------------------------------------
(* Two calls that differ in what has become of them. *)
Alike(a, b) == /\ a.op = b.op
               /\ a.sector = b.sector
               /\ a.count = b.count
               /\ a.done = b.done

LEMMA HurtsIs ==
    ASSUME call \in Calls, NEW h \in BOOLEAN
    PROVE  /\ Hurts(h) \in Calls
           /\ Alike(Hurts(h), call)
           /\ Hurts(h).status = call.status
           /\ Hurts(h).size = call.size
           /\ ~ Hurts(h).hurt => ~ call.hurt /\ ~ h
<1>. DEFINE g == call.hurt \/ h
<1>1. g \in BOOLEAN /\ (~ g => ~ call.hurt /\ ~ h)
    BY DEF Calls
<1>2. Hurts(h) = [call EXCEPT !.hurt = g]
    BY DEF Hurts
<1>. HIDE DEF g
<1>. QED  BY <1>1, <1>2 DEF Calls, Alike

LEMMA ProceedsIs ==
    ASSUME call \in Calls, NEW there, NEW h \in BOOLEAN, Proceeds(there, h)
    PROVE  /\ call' \in Calls
           /\ Alike(call', call)
           /\ call'.status = call.status
           /\ ~ call'.hurt => ~ call.hurt /\ ~ h
           /\ pc' = there
<1>1. call' = Hurts(h) /\ pc' = there
    BY DEF Proceeds
<1>. QED  BY <1>1, HurtsIs

LEMMA EndsIs ==
    ASSUME call \in Calls, NEW status \in Statuses, NEW h \in BOOLEAN,
           Ends(status, h)
    PROVE  /\ call' \in Calls
           /\ Alike(call', call)
           /\ call'.status = status
           /\ ~ call'.hurt => ~ call.hurt /\ ~ h
           /\ pc' = "release"
<1>. DEFINE g == Hurts(h)
<1>1. call' = [g EXCEPT !.status = status] /\ pc' = "release"
    BY DEF Ends
<1>2. /\ g \in Calls /\ Alike(g, call)
      /\ ~ g.hurt => ~ call.hurt /\ ~ h
    BY HurtsIs
<1>. HIDE DEF g
<1>. QED  BY <1>1, <1>2 DEF Calls, Alike

(* A card after a command that opens nothing. *)
Steady == /\ card' \in Cards
          /\ SameCard(card', card)
          /\ card'.busy => card' = card
          /\ card'.stream \in {card.stream, "none"}
          /\ card'.at = card.at

LEMMA TakesIs ==
    ASSUME card \in Cards, NEW cmd, cmd \notin Transfers, NEW arg,
           NEW x \in sd_cmd(card, cmd, arg), card' = x.card
    PROVE  /\ Steady
           /\ cmd \notin {"CMD0", "ACMD41"} => card'.mode = card.mode
           /\ cmd \notin {"CMD0", "CMD59"} => card'.crc = card.crc
           /\ x \in Answers
           /\ x.hurt \in BOOLEAN
           /\ x.r \in (SUBSET Flag) \cup {NoResponse}
           /\ StatusOf(cmd, x.r) \in Statuses
<1>1. /\ x \in Answers
      /\ Obedient(x.card, card, cmd)
      /\ x.card.busy => x.card = card
    BY CmdIs
<1>2. x.hurt \in BOOLEAN /\ x.r \in (SUBSET Flag) \cup {NoResponse}
      /\ x.card \in Cards
    BY <1>1 DEF Answers
<1>3. StatusOf(cmd, x.r) \in Statuses
    BY <1>2, StatusIs DEF Statuses
<1>. QED  BY <1>1, <1>2, <1>3 DEF Steady, Obedient

(* The driver goes on, and nobody is told anything. *)
LEMMA GlueKept ==
    ASSUME Inv, UNCHANGED <<glue, told>>, pc # "idle", pc' # "idle",
           call'.op = call.op, call'.count = call.count,
           call.op = "write" => buf' = buf
    PROVE  GlueInv'
<1>1. client # "nobody" /\ told.who = "nobody"
    BY DEF Inv, GlueInv
<1>2. client' = client /\ ram' = ram /\ told' = told
    BY DEF glue
<1>3. ~ Served("read")' /\ ~ Served("write")'
    BY <1>1, <1>2 DEF Served
<1>4. Transferring' <=> Transferring
    BY DEF Transferring
<1>. QED  BY <1>1, <1>2, <1>3, <1>4 DEF Inv, GlueInv, MachineTransfers

(* What the steps do that set up a card, or ask its size. *)
SetUp ==
    /\ pc \in InitPlaces \cup {"cmd9"}
    /\ Steady
    /\ sd' \in Drives
    /\ pc' \in InitPlaces \cup {"cmd9", "release", "asserted"}
    /\ call' \in Calls
    /\ Alike(call', call)
    /\ buf' = buf
    /\ tries' \in Nat
    /\ CountInv'
    /\ pc' \in InitPlaces => call.op = "init" /\ sd'.noinit
    /\ pc' = "cmd9" => call.op = "init" /\ sd'.noinit
    /\ pc' = "cmd16" => sd'.sectors = NumSectors
    /\ ~ sd'.noinit => card'.mode = "ready" /\ sd'.sectors = NumSectors
    /\ ~ sd.noinit => sd' = sd /\ card'.crc = card.crc

LEMMA SetUpKeeps ==
    ASSUME Inv, SetUp, UNCHANGED <<glue, told>>
    PROVE  Inv'
<1>1. call.op \in {"init", "size"} /\ pc # "idle" /\ pc' # "idle"
    BY DEF Inv, InitInv, SetUp, InitPlaces
<1>2. ~ Transferring /\ ~ Transferring'
    BY <1>1 DEF Transferring, SetUp, Alike
<1>3. TypeInv'
    <2>1. pc' \in Places
        BY DEF SetUp, InitPlaces, Places
    <2>2. ram' \in Block /\ mDiskBuf' \in Block
          /\ client' \in {"nobody", "start", "machine", "library"}
        BY DEF glue, Inv, TypeInv
    <2>. QED  BY <2>1, <2>2 DEF SetUp, Steady, Inv, TypeInv
<1>4. InitInv'
    BY DEF SetUp, Steady, Alike, Inv, InitInv
<1>5. CountInv'
    BY DEF SetUp
<1>6. CallInv'
    <2>1. pc' \notin ReadPlaces \cup WritePlaces \cup Openings \cup Moving \cup {"idle"}
        BY DEF SetUp, InitPlaces, ReadPlaces, WritePlaces, Openings, Moving
    <2>2. buf' = Blank /\ call'.done = 0
        BY <1>2 DEF SetUp, Alike, Inv, CallInv
    <2>3. call'.op # "read"
        BY <1>2 DEF Transferring
    <2>. QED  BY <1>2, <2>1, <2>2, <2>3 DEF CallInv
<1>7. StreamInv'
    <2>1. pc \notin Moving \cup {"cmd12", "cmd13", "release"}
          /\ pc' \notin Moving
        BY DEF SetUp, InitPlaces, Moving
    <2>2. card'.stream = "none"
        BY <2>1 DEF SetUp, Steady, Inv, StreamInv
    <2>. QED  BY <2>1, <2>2 DEF StreamInv
<1>8. PeaceInv'
    BY <1>2 DEF PeaceInv
<1>9. GlueInv'
    BY <1>1, <1>2, GlueKept DEF SetUp, Transferring, Alike
<1>. QED  BY <1>3, <1>4, <1>5, <1>6, <1>7, <1>8, <1>9 DEF Inv
-----------------------------------------------------------------------------
(* The steps of the set-up.  A step that issues a command has this in      *)
(* common with the others.                                                 *)
LEMMA AsksIs ==
    ASSUME Inv, pc \in InitPlaces \cup {"cmd9"}, NEW cmd, cmd \notin Transfers,
           NEW arg, NEW x \in sd_cmd(card, cmd, arg), Takes(x)
    PROVE  /\ Steady
           /\ cmd \notin {"CMD0", "ACMD41"} => card'.mode = card.mode
           /\ x.hurt \in BOOLEAN
           /\ x.r \in (SUBSET Flag) \cup {NoResponse}
           /\ StatusOf(cmd, x.r) \in Statuses
           /\ buf' = buf
           /\ pc # "cmd9" => call.op = "init" /\ sd.noinit
           /\ card \in Cards /\ sd \in Drives /\ call \in Calls /\ tries \in Nat
<1>1. card \in Cards /\ sd \in Drives /\ call \in Calls /\ tries \in Nat
    BY DEF Inv, TypeInv
<1>2. card' = x.card /\ buf' = buf
    BY DEF Takes
<1>3. pc # "cmd9" => call.op = "init" /\ sd.noinit
    BY DEF Inv, InitInv
<1>. QED  BY <1>1, <1>2, <1>3, TakesIs

LEMMA GoIdleSets ==
    ASSUME Inv, GoIdle
    PROVE  SetUp
<1>1. PICK x \in sd_cmd(card, "CMD0", 0) :
         /\ Takes(x)
         /\ \/ /\ x.r = {"idle"}
               /\ Proceeds("cmd8", x.hurt)
               /\ tries' = 0
            \/ /\ x.r # {"idle"}
               /\ tries + 1 < IdleRetries
               /\ Proceeds("cmd0", FALSE)
               /\ tries' = tries + 1
            \/ /\ x.r # {"idle"}
               /\ tries + 1 = IdleRetries
               /\ Ends("NO_DEVICE", TRUE)
               /\ tries' = 0
    BY DEF GoIdle
<1>2. pc = "cmd0" /\ pc \in InitPlaces \cup {"cmd9"} /\ sd' = sd
      /\ "CMD0" \notin Transfers /\ "NO_DEVICE" \in Statuses
    BY DEF GoIdle, InitPlaces, Transfers, Reading, Statuses
<1>3. /\ Steady /\ x.hurt \in BOOLEAN /\ buf' = buf
      /\ call.op = "init" /\ sd.noinit
      /\ sd \in Drives /\ call \in Calls /\ tries \in Nat
    BY <1>1, <1>2, AsksIs
<1>4. /\ call' \in Calls /\ Alike(call', call)
      /\ \/ pc' = "cmd8" /\ tries' = 0
         \/ pc' = "cmd0" /\ tries' = tries + 1 /\ tries + 1 < IdleRetries
         \/ pc' = "release" /\ tries' = 0
    BY <1>1, <1>2, <1>3, ProceedsIs, EndsIs
<1>. QED  BY <1>2, <1>3, <1>4 DEF SetUp, CountInv, InitPlaces

LEMMA Cmd8Sets ==
    ASSUME Inv, Cmd8
    PROVE  SetUp
<1>. DEFINE answered(x) == StatusOf("CMD8", x.r)
            status(x) == IF answered(x) = "NONE" /\ "echo" \in card.flaws
                           THEN "UNUSABLE" ELSE answered(x)
<1>1. PICK x \in sd_cmd(card, "CMD8", 0) :
         /\ Takes(x)
         /\ sd' = [sd EXCEPT !.type =
               CASE status(x) \in {"NO_DEVICE", "CRC"} -> @
                 [] status(x) \in {"UNSUPPORTED", "UNUSABLE"} -> "UNKNOWN"
                 [] OTHER -> "V2"]
         /\ IF status(x) \in {"NONE", "UNSUPPORTED"}
              THEN Proceeds("cmd59", x.hurt) ELSE Ends(status(x), x.hurt)
    BY DEF Cmd8
<1>2. pc = "cmd8" /\ pc \in InitPlaces \cup {"cmd9"} /\ tries' = tries
      /\ "CMD8" \notin Transfers
    BY DEF Cmd8, InitPlaces, Transfers, Reading
<1>3. /\ Steady /\ x.hurt \in BOOLEAN /\ buf' = buf /\ answered(x) \in Statuses
      /\ call.op = "init" /\ sd.noinit
      /\ sd \in Drives /\ call \in Calls /\ tries \in Nat
    BY <1>1, <1>2, AsksIs
<1>7. status(x) \in Statuses
    BY <1>3 DEF Statuses
<1>. HIDE DEF status
<1>4. sd' \in Drives /\ sd'.noinit
    BY <1>1, <1>3 DEF Drives
<1>5. call' \in Calls /\ Alike(call', call) /\ pc' \in {"cmd59", "release"}
    BY <1>1, <1>3, <1>7, ProceedsIs, EndsIs
<1>6. tries = 0
    BY <1>2 DEF Inv, CountInv
<1>. QED  BY <1>2, <1>3, <1>4, <1>5, <1>6 DEF SetUp, CountInv, InitPlaces

LEMMA CrcOnSets ==
    ASSUME Inv, CrcOn
    PROVE  SetUp
<1>1. PICK x \in sd_cmd(card, "CMD59", 1) : Takes(x) /\ Proceeds("cmd58", x.hurt)
    BY DEF CrcOn
<1>2. pc = "cmd59" /\ pc \in InitPlaces \cup {"cmd9"} /\ sd' = sd
      /\ tries' = tries /\ "CMD59" \notin Transfers
    BY DEF CrcOn, InitPlaces, Transfers, Reading
<1>3. /\ Steady /\ x.hurt \in BOOLEAN /\ buf' = buf
      /\ call.op = "init" /\ sd.noinit
      /\ sd \in Drives /\ call \in Calls /\ tries \in Nat
    BY <1>1, <1>2, AsksIs
<1>4. call' \in Calls /\ Alike(call', call) /\ pc' = "cmd58"
    BY <1>1, <1>3, ProceedsIs
<1>5. tries = 0
    BY <1>2 DEF Inv, CountInv
<1>6. tries' \in Nat /\ CountInv' /\ sd' \in Drives /\ sd'.noinit
      /\ pc' \in InitPlaces
    BY <1>2, <1>3, <1>4, <1>5 DEF CountInv, InitPlaces
<1>. QED  BY <1>2, <1>3, <1>4, <1>6 DEF SetUp

LEMMA ReadOCRSets ==
    ASSUME Inv, ReadOCR
    PROVE  SetUp
<1>. DEFINE status(x) == StatusOf("CMD58", x.r)
            unfit(x)  == status(x) = "NONE" /\ "volts" \in card.flaws
<1>1. PICK x \in sd_cmd(card, "CMD58", 0) :
         /\ Takes(x)
         /\ sd' = IF unfit(x) THEN [sd EXCEPT !.type = "UNKNOWN"] ELSE sd
         /\ IF unfit(x) THEN Ends("UNUSABLE", x.hurt)
            ELSE IF status(x) = "NONE" THEN Proceeds("acmd41", x.hurt)
            ELSE Ends(status(x), x.hurt)
    BY DEF ReadOCR
<1>2. pc = "cmd58" /\ pc \in InitPlaces \cup {"cmd9"}
      /\ tries' = tries /\ "CMD58" \notin Transfers /\ "UNUSABLE" \in Statuses
    BY DEF ReadOCR, InitPlaces, Transfers, Reading, Statuses
<1>3. /\ Steady /\ x.hurt \in BOOLEAN /\ buf' = buf /\ status(x) \in Statuses
      /\ call.op = "init" /\ sd.noinit
      /\ sd \in Drives /\ call \in Calls /\ tries \in Nat
    BY <1>1, <1>2, AsksIs
<1>. HIDE DEF status, unfit
<1>4. call' \in Calls /\ Alike(call', call) /\ pc' \in {"acmd41", "release"}
    BY <1>1, <1>2, <1>3, ProceedsIs, EndsIs
<1>5. tries = 0
    BY <1>2 DEF Inv, CountInv
<1>6. sd' \in Drives /\ sd'.noinit
    BY <1>1, <1>3 DEF Drives
<1>7. tries' \in Nat /\ CountInv'
    BY <1>2, <1>3, <1>4, <1>5, SdAssumption DEF CountInv
<1>. QED  BY <1>2, <1>3, <1>4, <1>6, <1>7 DEF SetUp, InitPlaces

LEMMA InitializeSets ==
    ASSUME Inv, Initialize
    PROVE  SetUp
<1>. DEFINE status(x) == StatusOf("ACMD41", x.r)
            again(x)  == "idle" \in x.r /\ tries + 1 < MaxPolls
<1>1. PICK x \in sd_cmd(card, "ACMD41", 0) :
         /\ Takes(x)
         /\ tries' = IF again(x) THEN tries + 1 ELSE 0
         /\ sd' = IF again(x) THEN sd
                  ELSE IF status(x) # "NONE" \/ x.r # {}
                    THEN [sd EXCEPT !.type = "UNKNOWN"]
                  ELSE IF sd.type = "V2" THEN sd
                  ELSE [sd EXCEPT !.type = "V1"]
         /\ IF again(x) THEN Proceeds("acmd41", FALSE)
            ELSE IF status(x) # "NONE" THEN Ends(status(x), TRUE)
            ELSE IF sd.type = "V2" /\ x.r = {} THEN Proceeds("ccs", x.hurt)
            ELSE Proceeds("cmd9", x.hurt \/ x.r # {})
    BY DEF Initialize
<1>2. pc = "acmd41" /\ pc \in InitPlaces \cup {"cmd9"}
      /\ "ACMD41" \notin Transfers
    BY DEF Initialize, InitPlaces, Transfers, Reading
<1>3. /\ Steady /\ x.hurt \in BOOLEAN /\ buf' = buf /\ status(x) \in Statuses
      /\ call.op = "init" /\ sd.noinit
      /\ sd \in Drives /\ call \in Calls /\ tries \in Nat
    BY <1>1, <1>2, AsksIs
<1>. DEFINE h == x.hurt \/ x.r # {}
<1>4. h \in BOOLEAN
    BY <1>3
<1>5. again(x) => tries + 1 < MaxPolls
    OBVIOUS
<1>6. \/ again(x) /\ Proceeds("acmd41", FALSE)
      \/ ~ again(x) /\ Ends(status(x), TRUE)
      \/ ~ again(x) /\ Proceeds("ccs", x.hurt)
      \/ ~ again(x) /\ Proceeds("cmd9", h)
    BY <1>1
<1>. HIDE DEF status, again, h
<1>7. sd' \in Drives /\ sd'.noinit
    BY <1>1, <1>3 DEF Drives
<1>8. /\ call' \in Calls /\ Alike(call', call)
      /\ \/ again(x) /\ pc' = "acmd41"
         \/ ~ again(x) /\ pc' \in {"release", "ccs", "cmd9"}
    BY <1>3, <1>4, <1>6, ProceedsIs, EndsIs
<1>9. tries' \in Nat /\ CountInv'
    BY <1>1, <1>3, <1>5, <1>8 DEF CountInv
<1>. QED  BY <1>2, <1>3, <1>7, <1>8, <1>9 DEF SetUp, InitPlaces

LEMMA ReadCCSSets ==
    ASSUME Inv, ReadCCS
    PROVE  SetUp
<1>. DEFINE status(x) == StatusOf("CMD58", x.r)
<1>1. PICK x \in sd_cmd(card, "CMD58", 0) :
         /\ Takes(x)
         /\ IF status(x) = "NONE"
              THEN /\ sd' = [sd EXCEPT !.type =
                               IF card.kind = "V2HC" THEN "V2HC" ELSE @]
                   /\ Proceeds("cmd9", x.hurt)
              ELSE UNCHANGED sd /\ Ends(status(x), x.hurt)
    BY DEF ReadCCS
<1>2. pc = "ccs" /\ pc \in InitPlaces \cup {"cmd9"} /\ tries' = tries
      /\ "CMD58" \notin Transfers
    BY DEF ReadCCS, InitPlaces, Transfers, Reading
<1>3. /\ Steady /\ x.hurt \in BOOLEAN /\ buf' = buf /\ status(x) \in Statuses
      /\ call.op = "init" /\ sd.noinit
      /\ sd \in Drives /\ call \in Calls /\ tries \in Nat
    BY <1>1, <1>2, AsksIs
<1>. HIDE DEF status
<1>4. sd' \in Drives /\ sd'.noinit
    BY <1>1, <1>3 DEF Drives
<1>5. call' \in Calls /\ Alike(call', call) /\ pc' \in {"cmd9", "release"}
    BY <1>1, <1>3, ProceedsIs, EndsIs
<1>6. tries = 0
    BY <1>2 DEF Inv, CountInv
<1>. QED  BY <1>2, <1>3, <1>4, <1>5, <1>6 DEF SetUp, CountInv, InitPlaces

LEMMA ReadSizeSets ==
    ASSUME Inv, ReadSize
    PROVE  SetUp
<1>. DEFINE size(x, a) == IF GotCsd(x, a) THEN CsdSectors ELSE 0
<1>1. PICK x \in sd_cmd(card, "CMD9", 0), a \in BOOLEAN :
         /\ card' = x.card
         /\ IF GotCsd(x, a) /\ "csd" \in card.flaws THEN Asserted
            ELSE IF call.op = "init"
              THEN /\ sd' = [sd EXCEPT !.sectors = size(x, a)]
                   /\ IF GotCsd(x, a) THEN Proceeds("cmd16", x.hurt)
                                      ELSE Ends("NO_RESPONSE", TRUE)
              ELSE /\ call' = [Hurts(x.hurt \/ ~ GotCsd(x, a))
                                 EXCEPT !.size = size(x, a)]
                   /\ pc' = "release"
                   /\ UNCHANGED sd
    BY DEF ReadSize
<1>2. pc = "cmd9" /\ pc \in InitPlaces \cup {"cmd9"} /\ tries' = tries
      /\ buf' = buf /\ "CMD9" \notin Transfers
      /\ "CMD9" \notin {"CMD0", "ACMD41"} /\ "CMD9" \notin {"CMD0", "CMD59"}
      /\ "NO_RESPONSE" \in Statuses
    BY DEF ReadSize, InitPlaces, Transfers, Reading, Statuses
<1>3. card \in Cards /\ sd \in Drives /\ call \in Calls /\ tries = 0
    BY <1>2 DEF Inv, TypeInv, CountInv
<1>4. /\ Steady /\ card'.mode = card.mode /\ card'.crc = card.crc
      /\ x.hurt \in BOOLEAN
    BY <1>1, <1>2, <1>3, TakesIs
<1>5. size(x, a) \in {0, NumSectors}
      /\ (GotCsd(x, a) => size(x, a) = NumSectors)
    BY DEF CsdSectors
<1>6. GotCsd(x, a) \in BOOLEAN
    BY DEF GotCsd
<1>. DEFINE h == x.hurt \/ ~ GotCsd(x, a)
            g == Hurts(h)
<1>7. h \in BOOLEAN
    BY <1>4, <1>6
<1>8. g \in Calls /\ Alike(g, call)
    BY <1>3, <1>7, HurtsIs
<1>. DEFINE unknown == GotCsd(x, a) /\ "csd" \in card.flaws
<1>9. ~ unknown /\ call.op # "init" => call' = [g EXCEPT !.size = size(x, a)]
    BY <1>1
<1>10. \/ unknown /\ Asserted
       \/ /\ ~ unknown /\ call.op = "init"
          /\ sd' = [sd EXCEPT !.sectors = size(x, a)]
          /\ IF GotCsd(x, a) THEN Proceeds("cmd16", x.hurt)
                             ELSE Ends("NO_RESPONSE", TRUE)
       \/ /\ ~ unknown /\ call.op # "init"
          /\ pc' = "release" /\ sd' = sd
    BY <1>1
<1>. HIDE DEF size, h, g, unknown
<1>11. CASE unknown
    <2>1. pc' = "asserted" /\ sd' = sd /\ call' = call
        BY <1>11, <1>10 DEF Asserted
    <2>2. ~ sd.noinit => card.mode = "ready" /\ sd.sectors = NumSectors
        BY DEF Inv, InitInv
    <2>. QED  BY <1>2, <1>3, <1>4, <2>1, <2>2
              DEF SetUp, CountInv, InitPlaces, Alike
<1>12. CASE ~ unknown /\ call.op = "init"
    <2>1. sd' = [sd EXCEPT !.sectors = size(x, a)]
        BY <1>12, <1>10
    <2>2. /\ call' \in Calls /\ Alike(call', call)
          /\ \/ pc' = "cmd16" /\ GotCsd(x, a)
             \/ pc' = "release"
        BY <1>2, <1>3, <1>4, <1>12, <1>10, ProceedsIs, EndsIs
    <2>3. sd.noinit
        BY <1>2, <1>12 DEF Inv, InitInv
    <2>4. sd' \in Drives /\ sd'.noinit /\ (pc' = "cmd16" => sd'.sectors = NumSectors)
        BY <1>3, <1>5, <2>1, <2>2, <2>3 DEF Drives
    <2>. QED  BY <1>2, <1>3, <1>4, <1>12, <2>2, <2>3, <2>4
              DEF SetUp, CountInv, InitPlaces
<1>13. CASE ~ unknown /\ call.op # "init"
    <2>1. pc' = "release" /\ sd' = sd
        BY <1>13, <1>10
    <2>2. call' \in Calls /\ Alike(call', call)
        BY <1>5, <1>8, <1>9, <1>13 DEF Calls, Alike
    <2>3. ~ sd.noinit => card.mode = "ready" /\ sd.sectors = NumSectors
        BY DEF Inv, InitInv
    <2>. QED  BY <1>2, <1>3, <1>4, <2>1, <2>2, <2>3
              DEF SetUp, CountInv, InitPlaces
<1>. QED  BY <1>12, <1>13, <1>11

LEMMA SetBlockLengthSets ==
    ASSUME Inv, SetBlockLength
    PROVE  SetUp
<1>. DEFINE status(x) == StatusOf("CMD16", x.r)
<1>1. PICK x \in sd_cmd(card, "CMD16", BlockSize) :
         /\ Takes(x)
         /\ sd' = [sd EXCEPT !.noinit = status(x) # "NONE"]
         /\ Ends(status(x), x.hurt)
    BY DEF SetBlockLength
<1>2. pc = "cmd16" /\ pc \in InitPlaces \cup {"cmd9"} /\ tries' = tries
      /\ "CMD16" \notin Transfers /\ "CMD16" \notin {"CMD0", "ACMD41"}
    BY DEF SetBlockLength, InitPlaces, Transfers, Reading
<1>3. /\ Steady /\ x.hurt \in BOOLEAN /\ buf' = buf /\ status(x) \in Statuses
      /\ card'.mode = card.mode
      /\ card \in Cards /\ sd \in Drives /\ call \in Calls /\ tries \in Nat
    BY <1>1, <1>2, AsksIs
<1>4. status(x) = "NONE" => card.mode = "ready"
    <2>1. card.busy => card.mode = "ready"
        BY DEF Inv, InitInv
    <2>. QED  BY <1>3, <2>1, LengthIs
<1>. HIDE DEF status
<1>5. sd' \in Drives /\ sd'.sectors = sd.sectors
      /\ (~ sd'.noinit => status(x) = "NONE")
    BY <1>1, <1>3 DEF Drives
<1>6. call' \in Calls /\ Alike(call', call) /\ pc' = "release"
    BY <1>1, <1>3, EndsIs
<1>7. tries = 0 /\ sd.sectors = NumSectors /\ sd.noinit
    BY <1>2 DEF Inv, CountInv, InitInv, InitPlaces
<1>. QED  BY <1>2, <1>3, <1>4, <1>5, <1>6, <1>7 DEF SetUp, CountInv, InitPlaces
-----------------------------------------------------------------------------
(* What the steps of a transfer have in common, and the end of any call.   *)
Carried == ReadPlaces \cup WritePlaces \cup {"release"}

Carry ==
    /\ pc \in Carried
    /\ pc' \in Carried \cup {"returned"}
    /\ sd' = sd
    /\ tries' = tries
    /\ card' \in Cards
    /\ card'.kind = card.kind
    /\ card'.mode = card.mode
    /\ card'.crc = card.crc
    /\ card'.busy => card.busy \/ ~ sd.noinit
    /\ call' \in Calls
    /\ call'.op = call.op
    /\ call'.sector = call.sector
    /\ call'.count = call.count
    /\ buf' \in Buffer
    /\ call.op = "write" => buf' = buf

LEMMA CarryKeeps ==
    ASSUME Inv, Carry, UNCHANGED <<glue, told>>
    PROVE  /\ TypeInv' /\ InitInv' /\ CountInv' /\ GlueInv'
           /\ Transferring' <=> Transferring
           /\ Trusted' <=> Trusted
           /\ Extent' <=> Extent
           /\ Opener' = Opener
<1>1. /\ pc \notin {"idle", "cmd0", "acmd41", "cmd9", "cmd16"} \cup InitPlaces
      /\ pc' \notin {"idle", "cmd0", "acmd41", "cmd9", "cmd16"} \cup InitPlaces
      /\ pc' \in Places
    BY DEF Carry, Carried, ReadPlaces, WritePlaces, InitPlaces, Places
<1>2. TypeInv'
    <2>1. ram' \in Block /\ mDiskBuf' \in Block
          /\ client' \in {"nobody", "start", "machine", "library"}
        BY DEF glue, Inv, TypeInv
    <2>. QED  BY <1>1, <2>1 DEF Carry, Inv, TypeInv
<1>3. InitInv'
    BY <1>1 DEF Carry, Inv, InitInv
<1>4. CountInv'
    BY <1>1 DEF Carry, Inv, CountInv
<1>5. GlueInv'
    BY <1>1, GlueKept DEF Carry
<1>6. Transferring' <=> Transferring
    BY DEF Carry, Transferring
<1>7. Trusted' <=> Trusted
    BY DEF Carry, Trusted, SameUnits
<1>8. (Extent' <=> Extent) /\ Opener' = Opener
    BY DEF Carry, Extent, Opener
<1>. QED  BY <1>2, <1>3, <1>4, <1>5, <1>6, <1>7, <1>8

(* Where a transfer is, it is one, within the card, and the card is set up. *)
LEMMA UnderWay ==
    ASSUME Inv, pc \in ReadPlaces \cup WritePlaces
    PROVE  /\ Transferring
           /\ call.op = IF pc \in ReadPlaces THEN "read" ELSE "write"
           /\ call.count \in 1 .. MaxBlocks
           /\ call.sector \in Nat
           /\ call.done \in 0 .. call.count
           /\ call.sector + call.count =< NumSectors
           /\ ~ sd.noinit
           /\ card.mode = "ready"
           /\ tries = 0
           /\ card \in Cards /\ sd \in Drives /\ call \in Calls /\ buf \in Buffer
<1>1. call.op = IF pc \in ReadPlaces THEN "read" ELSE "write"
    BY DEF Inv, CallInv, ReadPlaces, WritePlaces
<1>2. Transferring /\ pc # "returned" /\ pc \notin {"cmd0", "acmd41"}
    BY <1>1 DEF Transferring, ReadPlaces, WritePlaces
<1>3. card \in Cards /\ sd \in Drives /\ call \in Calls /\ buf \in Buffer
    BY DEF Inv, TypeInv
<1>4. call.count > 0 /\ call.done =< call.count /\ Extent /\ ~ sd.noinit
    BY <1>2 DEF Inv, CallInv
<1>5. tries = 0 /\ card.mode = "ready"
    BY <1>2, <1>4 DEF Inv, CountInv, InitInv
<1>6. call.count \in 1 .. MaxBlocks /\ call.sector \in Nat
      /\ call.done \in 0 .. call.count
    BY <1>3, <1>4, SdAssumption DEF Calls
<1>. QED  BY <1>1, <1>2, <1>3, <1>4, <1>5, <1>6 DEF Extent

(* The only block at the driver's address, if card and driver count alike. *)
LEMMA AddrIs ==
    ASSUME Inv, pc \in {"rcmd", "wcmd"}, SameUnits
    PROVE  Addressed(card, Addr) = {call.sector}
<1>1. pc \in ReadPlaces \cup WritePlaces
    BY DEF ReadPlaces, WritePlaces
<1>2. call.sector \in Sector /\ NumSectors \in Nat /\ BlockSize \in Nat \ {0}
    BY <1>1, UnderWay, SdAssumption DEF Sector
<1>3. Sector \subseteq Nat
    BY <1>2 DEF Sector
<1>4. CASE card.kind = "V2HC"
    BY <1>2, <1>4 DEF Addressed, Addr, SameUnits
<1>5. CASE card.kind # "V2HC"
    <2>1. Addr = call.sector * BlockSize
        BY <1>5 DEF Addr, SameUnits
    <2>2. Addressed(card, Addr)
             = {s \in Sector : call.sector * BlockSize = s * BlockSize}
        BY <1>5, <2>1 DEF Addressed
    <2>3. \A s \in Sector : call.sector * BlockSize = s * BlockSize
                               => s = call.sector
        BY <1>2, <1>3, TimesInjective
    <2>. QED  BY <1>2, <2>2, <2>3
<1>. QED  BY <1>4, <1>5

(* A command that opens a transfer. *)
LEMMA OpeningKeeps ==
    ASSUME Inv, pc \in {"rcmd", "wcmd"}, NEW there,
           there = IF pc = "rcmd" THEN "rblock" ELSE "wblock",
           Opening(Opener, there), UNCHANGED <<glue, told>>
    PROVE  Inv'
<1>. DEFINE status(x) == StatusOf(Opener, x.r)
<1>1. PICK x \in sd_cmd(card, Opener, Addr) :
         /\ Takes(x)
         /\ IF status(x) = "NONE" THEN Proceeds(there, x.hurt)
                                  ELSE Ends(status(x), x.hurt)
    BY DEF Opening
<1>2. sd' = sd /\ tries' = tries /\ card' = x.card /\ buf' = buf
    BY <1>1 DEF Opening, Takes
<1>3. pc \in ReadPlaces \cup WritePlaces /\ Opener \in Transfers
      /\ (call.op = "read" <=> pc = "rcmd")
    BY DEF ReadPlaces, WritePlaces, Opener, Transfers, Reading, Inv, CallInv
<1>4. Opener \notin {"CMD0", "ACMD41", "CMD59"}
    BY <1>3 DEF Transfers, Reading
<1>5. /\ x \in Answers /\ Obedient(x.card, card, Opener)
      /\ x.card.busy => x.card = card
    BY <1>3, UnderWay, CmdIs
<1>6. /\ card' \in Cards /\ x.hurt \in BOOLEAN
      /\ x.r \in (SUBSET Flag) \cup {NoResponse}
    BY <1>2, <1>5 DEF Answers
<1>7. status(x) \in Statuses
    BY <1>6, StatusIs DEF Statuses
<1>8. card.stream = "none" /\ call.done = 0 /\ call.status = "NONE"
    BY DEF Inv, StreamInv, CallInv, Moving, Openings
<1>9. Trusted => \/ status(x) # "NONE"
                 \/ card'.stream = "none"
                 \/ card'.stream = Opener /\ card'.at = call.sector
    <2>1. ASSUME Trusted
          PROVE  Addressed(card, Addr) = {call.sector} /\ card.crc
        BY <2>1, AddrIs DEF Trusted
    <2>. QED  BY <1>2, <1>3, <1>8, <2>1, UnderWay, TransferIs
<1>10. Trusted /\ ~ x.hurt => /\ status(x) = "NONE"
                              /\ card'.stream = Opener
                              /\ ~ card'.busy
    <2>1. ASSUME Trusted
          PROVE  Addressed(card, Addr) # {}
        BY <2>1, AddrIs DEF Trusted
    <2>. QED  BY <1>2, <1>3, <1>8, <2>1, UnderWay, TransferIs
<1>. HIDE DEF status
<1>11. /\ call' \in Calls /\ Alike(call', call)
       /\ ~ call'.hurt => ~ call.hurt /\ ~ x.hurt
       /\ \/ status(x) = "NONE" /\ pc' = there /\ call'.status = call.status
          \/ status(x) # "NONE" /\ pc' = "release" /\ call'.status # "NONE"
    BY <1>1, <1>3, <1>6, <1>7, UnderWay, ProceedsIs, EndsIs
<1>12. Carry
    BY <1>2, <1>3, <1>4, <1>5, <1>6, <1>11, UnderWay
       DEF Carry, Carried, Obedient, SameCard, Alike, ReadPlaces, WritePlaces
<1>13. /\ TypeInv' /\ InitInv' /\ CountInv' /\ GlueInv'
       /\ Transferring' <=> Transferring
       /\ Trusted' <=> Trusted
       /\ Extent' <=> Extent
       /\ Opener' = Opener
    BY <1>12, CarryKeeps
<1>14. /\ pc' \in {there, "release"} /\ there \in Moving
       /\ there \in ReadPlaces => call.op = "read"
       /\ there \in WritePlaces => call.op = "write"
    BY <1>3, <1>11, UnderWay DEF Moving, ReadPlaces, WritePlaces
<1>15. CallInv'
    <2>1. /\ pc' \notin Openings \cup {"idle", "returned", "cmd12"}
          /\ "release" \notin ReadPlaces \cup WritePlaces \cup Moving
        BY <1>14 DEF Openings, Moving, ReadPlaces, WritePlaces
    <2>2. /\ call'.op = call.op /\ call'.sector = call.sector
          /\ call'.count = call.count /\ call'.done = 0
          /\ call.count \in 1 .. MaxBlocks
        BY <1>3, <1>8, <1>11, UnderWay DEF Alike
    <2>3. Transferring' /\ Extent' /\ ~ sd'.noinit
        BY <1>2, <1>3, <1>13, UnderWay DEF Extent
    <2>. QED  BY <1>8, <1>11, <1>14, <2>1, <2>2, <2>3 DEF CallInv
<1>16. StreamInv'
    <2>1. pc' \in Moving \cup {"release"}
        BY <1>14
    <2>2. call'.sector = call.sector /\ call'.done = 0 /\ call.sector \in Nat
        BY <1>3, <1>8, <1>11, UnderWay DEF Alike
    <2>3. "release" \notin Moving
        BY DEF Moving
    <2>. QED  BY <1>9, <1>11, <1>13, <2>1, <2>2, <2>3 DEF StreamInv
<1>17. PeaceInv'
    <2>. SUFFICES ASSUME Transferring', ~ call'.hurt
                  PROVE  /\ ~ card'.error
                         /\ Trusted' =>
                               /\ pc' \in Moving => card'.stream = Opener' /\ ~ card'.busy
                               /\ pc' \in {"cmd12", "cmd13", "release"}
                                     => call'.done = call'.count
                               /\ pc' \in {"cmd12", "release"} => call'.status = "NONE"
                               /\ pc' = "returned" /\ Extent' =>
                                     call'.done = call'.count /\ call'.status = "NONE"
                               /\ \A i \in 1 .. call'.done :
                                     buf'[i] = card'.store[call'.sector + i - 1]
        BY DEF PeaceInv
    <2>1. ~ card'.error
        BY <1>2, <1>5, <1>11, <1>13 DEF Obedient, SameCard, Inv, PeaceInv
    <2>2. Trusted' => pc' = there /\ card'.stream = Opener' /\ ~ card'.busy
        BY <1>10, <1>11, <1>13
    <2>3. there \notin {"cmd12", "cmd13", "release", "returned"}
        OBVIOUS
    <2>4. 1 .. call'.done = {}
        BY <1>8, <1>11 DEF Alike
    <2>. QED  BY <2>1, <2>2, <2>3, <2>4
<1>. QED  BY <1>13, <1>15, <1>16, <1>17 DEF Inv
LEMMA ReadCommandKeeps ==
    ASSUME Inv, ReadCommand, UNCHANGED <<glue, told>>
    PROVE  Inv'
<1>1. pc = "rcmd" /\ pc \in {"rcmd", "wcmd"}
    BY DEF ReadCommand
<1>2. call.op = "read"
    BY <1>1 DEF Inv, CallInv, ReadPlaces
<1>3. Opening(Opener, "rblock")
    BY <1>2 DEF ReadCommand, Opener
<1>. QED  BY <1>1, <1>3, OpeningKeeps

LEMMA WriteCommandKeeps ==
    ASSUME Inv, WriteCommand, UNCHANGED <<glue, told>>
    PROVE  Inv'
<1>1. pc = "wcmd" /\ pc \in {"rcmd", "wcmd"}
    BY DEF WriteCommand
<1>2. call.op = "write"
    BY <1>1 DEF Inv, CallInv, WritePlaces
<1>3. Opening(Opener, "wblock")
    BY <1>2 DEF WriteCommand, Opener
<1>. QED  BY <1>1, <1>3, OpeningKeeps

LEMMA PreEraseKeeps ==
    ASSUME Inv, PreErase, UNCHANGED <<glue, told>>
    PROVE  Inv'
<1>1. PICK x \in sd_cmd(card, "ACMD23", call.count) :
         Takes(x) /\ Proceeds("wcmd", x.hurt)
    BY DEF PreErase
<1>2. /\ pc = "acmd23" /\ pc \in ReadPlaces \cup WritePlaces
      /\ sd' = sd /\ tries' = tries
      /\ "ACMD23" \notin Transfers
      /\ "ACMD23" \notin {"CMD0", "ACMD41"} /\ "ACMD23" \notin {"CMD0", "CMD59"}
    BY DEF PreErase, WritePlaces, Transfers, Reading
<1>3. card' = x.card /\ buf' = buf
    BY <1>1 DEF Takes
<1>4. /\ Steady /\ x.hurt \in BOOLEAN
      /\ card'.mode = card.mode /\ card'.crc = card.crc
    BY <1>2, <1>3, UnderWay, TakesIs
<1>5. /\ call' \in Calls /\ Alike(call', call) /\ call'.status = call.status
      /\ ~ call'.hurt => ~ call.hurt
      /\ pc' = "wcmd"
    BY <1>1, <1>2, <1>4, UnderWay, ProceedsIs
<1>6. Carry
    BY <1>2, <1>3, <1>4, <1>5, UnderWay
       DEF Carry, Carried, Steady, SameCard, Alike, WritePlaces
<1>7. /\ TypeInv' /\ InitInv' /\ CountInv' /\ GlueInv'
      /\ Transferring' <=> Transferring
      /\ Trusted' <=> Trusted
      /\ Extent' <=> Extent
    BY <1>6, CarryKeeps
<1>8. /\ call.op = "write" /\ call.done = 0 /\ call.status = "NONE"
      /\ card.stream = "none" /\ Transferring
    BY <1>2 DEF Inv, CallInv, StreamInv, WritePlaces, Openings, Moving, Transferring
<1>9. CallInv'
    <2>1. call'.op = "write" /\ call'.done = 0 /\ call'.status = "NONE"
          /\ call'.count = call.count /\ call.count \in 1 .. MaxBlocks
        BY <1>2, <1>5, <1>8, UnderWay DEF Alike
    <2>2. Transferring' /\ Extent' /\ ~ sd'.noinit
        BY <1>2, <1>7, UnderWay DEF Extent
    <2>3. "wcmd" \notin ReadPlaces \cup Moving \cup {"idle"}
        BY DEF ReadPlaces, Moving
    <2>. QED  BY <1>5, <2>1, <2>2, <2>3 DEF CallInv
<1>10. StreamInv'
    BY <1>4, <1>5, <1>8 DEF StreamInv, Steady, Moving
<1>11. PeaceInv'
    <2>1. 1 .. call'.done = {}
        BY <1>5, <1>8 DEF Alike
    <2>2. ~ call'.hurt => ~ card'.error
        BY <1>4, <1>5, <1>8 DEF Inv, PeaceInv, Steady, SameCard
    <2>3. "wcmd" \notin Moving \cup {"cmd12", "cmd13", "release", "returned"}
        BY DEF Moving
    <2>. QED  BY <1>5, <2>1, <2>2, <2>3 DEF PeaceInv
<1>. QED  BY <1>7, <1>9, <1>10, <1>11 DEF Inv

(* A pass of the loop that reads. *)
LEMMA GoesOnIs ==
    ASSUME call \in Calls, call.count \in 1 .. MaxBlocks, call.done < call.count,
           NEW ok \in BOOLEAN, NEW h \in BOOLEAN, ReadGoesOn(ok, h)
    PROVE  /\ call' \in Calls
           /\ call'.op = call.op
           /\ call'.sector = call.sector
           /\ call'.count = call.count
           /\ call'.done = IF ok THEN call.done + 1 ELSE call.done
           /\ call'.status = IF ok THEN call.status ELSE "NO_RESPONSE"
           /\ ~ call'.hurt => ~ call.hurt /\ ~ h
           /\ pc' = IF ok /\ call.done + 1 < call.count THEN "rblock"
                    ELSE IF call.count > 1 THEN "cmd12" ELSE "release"
<1>. DEFINE g == Hurts(h)
            n == IF ok THEN call.done + 1 ELSE call.done
            r == IF ok THEN call.status ELSE "NO_RESPONSE"
<1>1. /\ g \in Calls /\ Alike(g, call) /\ g.status = call.status
      /\ ~ g.hurt => ~ call.hurt /\ ~ h
    BY HurtsIs
<1>2. n \in 0 .. MaxBlocks /\ r \in Statuses
    BY SdAssumption DEF Calls, Statuses
<1>3. call' = [g EXCEPT !.done = IF ok THEN @ + 1 ELSE @,
                        !.status = IF ok THEN @ ELSE "NO_RESPONSE"]
    BY DEF ReadGoesOn
<1>. HIDE DEF g
<1>4. call' = [g EXCEPT !.done = n, !.status = r]
    BY <1>1, <1>3 DEF Calls, Alike
<1>. HIDE DEF n, r
<1>5. /\ call' \in Calls
      /\ call'.op = g.op /\ call'.sector = g.sector /\ call'.count = g.count
      /\ call'.done = n /\ call'.status = r /\ call'.hurt = g.hurt
    BY <1>1, <1>2, <1>4 DEF Calls
<1>. QED  BY <1>1, <1>5 DEF Alike, ReadGoesOn, n, r
(* The card after a block. *)
LEMMA StreamedIs ==
    ASSUME card \in Cards, card.at < NumSectors
    PROVE  /\ Streamed \in Cards
           /\ SameCard(Streamed, card)
           /\ Streamed.mode = card.mode /\ Streamed.crc = card.crc
           /\ Streamed.busy = card.busy
           /\ Streamed.at = card.at + 1
           /\ Streamed.stream = IF card.stream \in Single THEN "none"
                                                          ELSE card.stream
<1>. DEFINE t == IF card.stream \in Single THEN "none" ELSE card.stream
<1>1. card.at + 1 \in 0 .. NumSectors /\ t \in Transfers \cup {"none"}
    BY SdAssumption DEF Cards
<1>2. Streamed = [card EXCEPT !.at = card.at + 1, !.stream = t]
    BY DEF Streamed, Cards
<1>. HIDE DEF t
<1>3. /\ Streamed \in Cards
      /\ SameCard(Streamed, card)
      /\ Streamed.mode = card.mode /\ Streamed.crc = card.crc
      /\ Streamed.busy = card.busy
      /\ Streamed.at = card.at + 1
      /\ Streamed.stream = t
    BY <1>1, <1>2 DEF Cards, SameCard
<1>. QED  BY <1>3 DEF t

(* A trusted card that was left in peace transfers what it is asked to. *)
LEMMA SendsIs ==
    ASSUME Inv, pc \in Moving, Trusted, ~ call.hurt
    PROVE  /\ card.stream = Opener
           /\ card.at = call.sector + call.done
           /\ Sends(IF call.op = "read" THEN Reading ELSE {"CMD24", "CMD25"})
<1>1. pc \in ReadPlaces \cup WritePlaces
    BY DEF Moving, ReadPlaces, WritePlaces
<1>2. card.stream = Opener /\ ~ card.busy
    BY <1>1, UnderWay DEF Inv, PeaceInv
<1>3. card.at = call.sector + call.done
    BY <1>2 DEF Inv, StreamInv, Opener
<1>4. call.done < call.count
    BY DEF Inv, CallInv
<1>5. card.at < NumSectors
    BY <1>1, <1>3, <1>4, UnderWay, SdAssumption
<1>6. Opener \in IF call.op = "read" THEN Reading ELSE {"CMD24", "CMD25"}
    BY DEF Opener, Reading
<1>. QED  BY <1>2, <1>3, <1>5, <1>6 DEF Sends

(* A block arrives. *)
Arrives == /\ pc = "rblock"
           /\ Sends(Reading)
           /\ buf' = [buf EXCEPT ![call.done + 1] = card.store[card.at]]
           /\ card' = Streamed
           /\ ReadGoesOn(TRUE, FALSE)

(* It does not, or not as it was. *)
Misses == /\ pc = "rblock"
          /\ \/ /\ Sends(Reading)
                /\ buf' = [buf EXCEPT ![call.done + 1] = Garbage]
                /\ card' = Streamed
                /\ ReadGoesOn(FALSE, TRUE)
             \/ /\ ReadGoesOn(FALSE, Sends(Reading))
                /\ UNCHANGED <<buf, card>>

LEMMA ReadBlockIs ==
    ASSUME Inv, ReadBlock
    PROVE  /\ Arrives \/ Misses
           /\ sd' = sd /\ tries' = tries
BY DEF ReadBlock, Arrives, Misses

LEMMA ArrivesKeeps ==
    ASSUME Inv, Arrives, sd' = sd, tries' = tries, UNCHANGED <<glue, told>>
    PROVE  Inv'
<1>1. /\ pc = "rblock" /\ pc \in Moving /\ pc \in ReadPlaces
      /\ pc \in ReadPlaces \cup WritePlaces
    BY DEF Arrives, Moving, ReadPlaces
<1>2. call.done < call.count /\ call.status = "NONE" /\ call.op = "read"
      /\ Transferring
    BY <1>1, UnderWay DEF Inv, CallInv
<1>3. /\ call' \in Calls
      /\ call'.op = call.op /\ call'.sector = call.sector
      /\ call'.count = call.count /\ call'.done = call.done + 1
      /\ call'.status = "NONE"
      /\ ~ call'.hurt => ~ call.hurt
      /\ pc' = IF call.done + 1 < call.count THEN "rblock"
               ELSE IF call.count > 1 THEN "cmd12" ELSE "release"
    BY <1>1, <1>2, UnderWay, GoesOnIs DEF Arrives
<1>4. /\ card.stream \in Reading /\ ~ card.busy /\ card.at < NumSectors
      /\ card.at \in Sector
    BY <1>1, UnderWay, SdAssumption DEF Arrives, Sends, Cards, Sector
<1>5. /\ card' \in Cards /\ SameCard(card', card)
      /\ card'.mode = card.mode /\ card'.crc = card.crc
      /\ card'.busy = card.busy
      /\ card'.at = card.at + 1
      /\ card'.stream = IF card.stream \in Single THEN "none" ELSE card.stream
    BY <1>1, <1>4, UnderWay, StreamedIs DEF Arrives
<1>6. call.done \in Nat /\ call.count \in 1 .. MaxBlocks /\ MaxBlocks \in Nat
      /\ call.sector \in Nat /\ call.done + 1 \in Index
    BY <1>1, <1>2, UnderWay, SdAssumption DEF Index
<1>7. /\ buf' \in Buffer
      /\ buf'[call.done + 1] = card.store[card.at]
      /\ \A i \in 1 .. call.done : buf'[i] = buf[i]
    <2>1. card.store[card.at] \in Block /\ buf \in [Index -> Block]
        BY <1>1, <1>4, UnderWay DEF Cards, Buffer
    <2>2. 1 .. call.done \subseteq Index
        BY <1>6 DEF Index
    <2>. QED  BY <1>6, <2>1, <2>2 DEF Arrives, Buffer
<1>8. pc' \in {"rblock", "cmd12", "release"}
    BY <1>3
<1>9. Carry
    BY <1>1, <1>2, <1>3, <1>5, <1>7, <1>8
       DEF Carry, Carried, SameCard, ReadPlaces
<1>10. /\ TypeInv' /\ InitInv' /\ CountInv' /\ GlueInv'
       /\ Transferring' <=> Transferring
       /\ Trusted' <=> Trusted
       /\ Extent' <=> Extent
       /\ Opener' = Opener
    BY <1>9, CarryKeeps
<1>11. CallInv'
    <2>1. Transferring' /\ Extent' /\ ~ sd'.noinit
        BY <1>1, <1>10, UnderWay DEF Extent
    <2>2. pc' \notin WritePlaces \cup Openings \cup {"idle", "returned"}
        BY <1>8 DEF WritePlaces, Openings
    <2>3. call'.done =< call'.count
          /\ (pc' \in {"cmd12", "release"} => call'.done = call'.count)
          /\ (pc' \in Moving => call'.done < call'.count)
        BY <1>2, <1>3, <1>6 DEF Moving
    <2>. QED  BY <1>2, <1>3, <1>6, <2>1, <2>2, <2>3 DEF CallInv
<1>12. StreamInv'
    <2>1. pc' \in Moving \cup {"cmd12", "release"}
        BY <1>8 DEF Moving
    <2>2. ASSUME Trusted, pc' \in Moving, card'.stream # "none"
          PROVE  card'.stream = Opener /\ card'.at = call'.sector + call'.done
        <3>1. card.stream # "none"
            BY <1>4 DEF Reading
        <3>2. card.stream = Opener /\ card.at = call.sector + call.done
            BY <1>1, <2>2, <3>1 DEF Inv, StreamInv
        <3>. QED  BY <1>3, <1>5, <1>6, <2>2, <3>2
    <2>. QED  BY <1>10, <2>1, <2>2 DEF StreamInv
<1>13. PeaceInv'
    <2>. SUFFICES ASSUME ~ call'.hurt
                  PROVE  /\ ~ card'.error
                         /\ Trusted' =>
                               /\ pc' \in Moving => card'.stream = Opener' /\ ~ card'.busy
                               /\ pc' \in {"cmd12", "cmd13", "release"}
                                     => call'.done = call'.count
                               /\ pc' \in {"cmd12", "release"} => call'.status = "NONE"
                               /\ pc' = "returned" /\ Extent' =>
                                     call'.done = call'.count /\ call'.status = "NONE"
                               /\ \A i \in 1 .. call'.done :
                                     buf'[i] = card'.store[call'.sector + i - 1]
        BY DEF PeaceInv
    <2>1. ~ call.hurt
        BY <1>3
    <2>2. ~ card'.error
        BY <1>2, <1>5, <2>1 DEF Inv, PeaceInv, SameCard
    <2>3. ASSUME Trusted'
          PROVE  /\ pc' \in Moving => card'.stream = Opener' /\ ~ card'.busy
                 /\ \A i \in 1 .. call'.done :
                       buf'[i] = card'.store[call'.sector + i - 1]
        <3>1. Trusted /\ card.stream = Opener /\ card.at = call.sector + call.done
            BY <1>1, <1>10, <2>1, <2>3, SendsIs
        <3>2. \A i \in 1 .. call.done : buf[i] = card.store[call.sector + i - 1]
            BY <1>2, <2>1, <3>1 DEF Inv, PeaceInv
        <3>3. pc' \in Moving => Opener = "CMD18"
            BY <1>2, <1>3, <1>6 DEF Opener, Moving
        <3>4. card'.store = card.store
            BY <1>5 DEF SameCard
        <3>5. ASSUME NEW i \in 1 .. call'.done
              PROVE  buf'[i] = card'.store[call'.sector + i - 1]
            <4>1. CASE i \in 1 .. call.done
                BY <1>3, <1>7, <3>2, <3>4, <4>1
            <4>2. CASE i = call.done + 1
                <5>1. call.sector + i - 1 = card.at
                    BY <1>6, <3>1, <4>2
                <5>. QED  BY <1>3, <1>7, <3>4, <4>2, <5>1
            <4>. QED  BY <1>3, <1>6, <4>1, <4>2
        <3>. QED  BY <1>4, <1>5, <1>10, <3>1, <3>3, <3>5 DEF Single
    <2>4. /\ pc' \in {"cmd12", "cmd13", "release"} => call'.done = call'.count
          /\ call'.status = "NONE" /\ pc' # "returned"
        BY <1>2, <1>3, <1>6, <1>8
    <2>. QED  BY <2>2, <2>3, <2>4
<1>. QED  BY <1>10, <1>11, <1>12, <1>13 DEF Inv

LEMMA MissesKeeps ==
    ASSUME Inv, Misses, sd' = sd, tries' = tries, UNCHANGED <<glue, told>>
    PROVE  Inv'
<1>1. /\ pc = "rblock" /\ pc \in Moving /\ pc \in ReadPlaces
      /\ pc \in ReadPlaces \cup WritePlaces
    BY DEF Misses, Moving, ReadPlaces
<1>2. call.done < call.count /\ call.op = "read" /\ Transferring
    BY <1>1, UnderWay DEF Inv, CallInv
<1>3. /\ \E h \in {TRUE, Sends(Reading)} : ReadGoesOn(FALSE, h)
      /\ buf' \in Buffer
    <2>1. buf \in Buffer /\ [buf EXCEPT ![call.done + 1] = Garbage] \in Buffer
        <3>1. buf \in Buffer /\ Garbage \in Block
            BY DEF Inv, TypeInv, Block
        <3>. QED  BY <3>1 DEF Buffer
    <2>. QED  BY <2>1 DEF Misses
<1>4. PICK h \in {TRUE, Sends(Reading)} : ReadGoesOn(FALSE, h)
    BY <1>3
<1>5. h \in BOOLEAN /\ (Sends(Reading) => h)
    BY DEF Sends
<1>6. /\ call' \in Calls
      /\ call'.op = call.op /\ call'.sector = call.sector
      /\ call'.count = call.count /\ call'.done = call.done
      /\ call'.status = "NO_RESPONSE"
      /\ ~ call'.hurt => ~ call.hurt /\ ~ h
      /\ pc' = IF call.count > 1 THEN "cmd12" ELSE "release"
    BY <1>1, <1>2, <1>4, <1>5, UnderWay, GoesOnIs
<1>7. /\ card' \in Cards /\ SameCard(card', card)
      /\ card'.mode = card.mode /\ card'.crc = card.crc
      /\ card'.busy = card.busy
    <2>1. CASE card' = card
        BY <1>1, <2>1, UnderWay DEF SameCard
    <2>2. CASE card' = Streamed /\ Sends(Reading)
        <3>1. card.at < NumSectors
            BY <2>2 DEF Sends
        <3>. QED  BY <1>1, <2>2, <3>1, UnderWay, StreamedIs
    <2>. QED  BY <2>1, <2>2 DEF Misses
<1>8. pc' \in {"cmd12", "release"} /\ buf' \in Buffer
    BY <1>3, <1>6
<1>9. Carry
    BY <1>1, <1>2, <1>6, <1>7, <1>8 DEF Carry, Carried, SameCard, ReadPlaces
<1>10. /\ TypeInv' /\ InitInv' /\ CountInv' /\ GlueInv'
       /\ Transferring' <=> Transferring
       /\ Trusted' <=> Trusted
       /\ Extent' <=> Extent
    BY <1>9, CarryKeeps
<1>11. pc' \notin WritePlaces \cup Openings \cup Moving \cup {"idle", "returned"}
    BY <1>8 DEF WritePlaces, Openings, Moving
<1>12. CallInv'
    <2>1. Transferring' /\ Extent' /\ ~ sd'.noinit
        BY <1>1, <1>10, UnderWay DEF Extent
    <2>2. call.count \in 1 .. MaxBlocks /\ call.done =< call.count
        BY <1>1, UnderWay
    <2>. QED  BY <1>2, <1>6, <1>11, <2>1, <2>2 DEF CallInv
<1>13. StreamInv'
    BY <1>8, <1>11 DEF StreamInv
<1>14. PeaceInv'
    <2>1. Trusted => call'.hurt
        BY <1>1, <1>2, <1>5, <1>6, SendsIs
    <2>2. ~ call'.hurt => ~ card'.error
        BY <1>2, <1>6, <1>7 DEF Inv, PeaceInv, SameCard
    <2>. QED  BY <1>10, <2>1, <2>2 DEF PeaceInv
<1>. QED  BY <1>10, <1>12, <1>13, <1>14 DEF Inv

LEMMA StopReadingKeeps ==
    ASSUME Inv, StopReading, UNCHANGED <<glue, told>>
    PROVE  Inv'
<1>. DEFINE said(x) == StatusOf("CMD12", x.r)
            status(x) == IF call.status # "NONE" THEN call.status ELSE said(x)
<1>1. PICK x \in sd_cmd(card, "CMD12", 0) :
         Takes(x) /\ Ends(status(x), x.hurt)
    BY DEF StopReading
<1>2. /\ pc = "cmd12" /\ pc \in ReadPlaces \cup WritePlaces /\ pc \in ReadPlaces
      /\ sd' = sd /\ tries' = tries
      /\ "CMD12" \notin Transfers
      /\ "CMD12" \notin {"CMD0", "ACMD41"} /\ "CMD12" \notin {"CMD0", "CMD59"}
    BY DEF StopReading, ReadPlaces, Transfers, Reading
<1>3. card' = x.card /\ buf' = buf
    BY <1>1 DEF Takes
<1>4. /\ Steady /\ x.hurt \in BOOLEAN /\ said(x) \in Statuses
      /\ card'.mode = card.mode /\ card'.crc = card.crc
    BY <1>2, <1>3, UnderWay, TakesIs
<1>5. ~ x.hurt => said(x) = "NONE"
    BY <1>2, UnderWay, MeekIs
<1>6. status(x) \in Statuses /\ (status(x) = "NONE" => call.status = "NONE")
      /\ (~ x.hurt /\ call.status = "NONE" => status(x) = "NONE")
    BY <1>2, <1>4, <1>5, UnderWay DEF Calls
<1>. HIDE DEF said, status
<1>7. /\ call' \in Calls /\ Alike(call', call) /\ call'.status = status(x)
      /\ ~ call'.hurt => ~ call.hurt /\ ~ x.hurt
      /\ pc' = "release"
    BY <1>1, <1>2, <1>4, <1>6, UnderWay, EndsIs
<1>8. Carry
    BY <1>2, <1>3, <1>4, <1>7, UnderWay
       DEF Carry, Carried, Steady, SameCard, Alike, ReadPlaces
<1>9. /\ TypeInv' /\ InitInv' /\ CountInv' /\ GlueInv'
      /\ Transferring' <=> Transferring
      /\ Trusted' <=> Trusted
      /\ Extent' <=> Extent
    BY <1>8, CarryKeeps
<1>10. "release" \notin ReadPlaces \cup WritePlaces \cup Openings \cup Moving
                        \cup {"idle", "returned", "cmd12", "cmd13"}
    BY DEF ReadPlaces, WritePlaces, Openings, Moving
<1>11. CallInv'
    <2>1. Transferring' /\ Extent' /\ ~ sd'.noinit
        BY <1>2, <1>9, UnderWay DEF Extent
    <2>2. /\ call'.op = "read" /\ call'.count > 0 /\ call'.done =< call'.count
          /\ call'.status = "NONE" => call'.done = call'.count
        BY <1>2, <1>6, <1>7, UnderWay DEF Alike, Inv, CallInv
    <2>. QED  BY <1>7, <1>10, <2>1, <2>2 DEF CallInv
<1>12. StreamInv'
    BY <1>7, <1>10 DEF StreamInv
<1>13. PeaceInv'
    <2>1. ASSUME ~ call'.hurt
          PROVE  /\ ~ card'.error
                 /\ Trusted' =>
                       /\ call'.done = call'.count
                       /\ call'.status = "NONE"
                       /\ \A i \in 1 .. call'.done :
                             buf'[i] = card'.store[call'.sector + i - 1]
        BY <1>2, <1>3, <1>4, <1>6, <1>7, <1>9, <2>1, UnderWay
           DEF Inv, PeaceInv, Steady, SameCard, Alike
    <2>. QED  BY <1>7, <1>10, <2>1 DEF PeaceInv
<1>. QED  BY <1>9, <1>11, <1>12, <1>13 DEF Inv

LEMMA AskStatusKeeps ==
    ASSUME Inv, AskStatus, UNCHANGED <<glue, told>>
    PROVE  Inv'
<1>. DEFINE said(x) == StatusOf("CMD13", x.r)
            asked(x) == said(x) = "NONE" /\ ~ x.card.busy
            status(x) == IF asked(x) /\ card.error THEN "WRITE" ELSE said(x)
<1>1. PICK x \in sd_cmd(card, "CMD13", 0) :
         /\ card' = IF asked(x) THEN [x.card EXCEPT !.error = FALSE] ELSE x.card
         /\ Ends(status(x), x.hurt)
    BY DEF AskStatus
<1>2. /\ pc = "cmd13" /\ pc \in ReadPlaces \cup WritePlaces /\ pc \notin ReadPlaces
      /\ sd' = sd /\ tries' = tries /\ buf' = buf
      /\ "CMD13" \notin Transfers /\ "CMD13" \notin {"CMD0", "CMD59"}
      /\ "CMD13" \notin {"CMD0", "ACMD41"} /\ "CMD13" \in {"CMD12", "CMD13"}
    BY DEF AskStatus, ReadPlaces, WritePlaces, Transfers, Reading
<1>3. /\ x \in Answers /\ Obedient(x.card, card, "CMD13")
      /\ x.card.busy => x.card = card
    BY <1>2, UnderWay, CmdIs
<1>4. x.card \in Cards /\ x.hurt \in BOOLEAN
      /\ x.r \in (SUBSET Flag) \cup {NoResponse}
    BY <1>3 DEF Answers
<1>5. said(x) \in Statuses /\ "WRITE" \in Statuses
    BY <1>4, StatusIs DEF Statuses
<1>6. ~ x.hurt => said(x) = "NONE"
    BY <1>2, UnderWay, MeekIs
<1>. HIDE DEF said
<1>7. /\ card' \in Cards /\ card'.kind = card.kind /\ card'.store = card.store
      /\ card'.mode = card.mode /\ card'.crc = card.crc
      /\ card'.busy => card.busy
      /\ ~ card.error => ~ card'.error
    <2>1. /\ x.card.kind = card.kind /\ x.card.store = card.store
          /\ x.card.error = card.error
          /\ x.card.mode = card.mode /\ x.card.crc = card.crc
          /\ x.card.busy => card.busy
        BY <1>2, <1>3 DEF Obedient, SameCard
    <2>2. CASE asked(x)
        <3>1. card' = [x.card EXCEPT !.error = FALSE]
            BY <1>1, <2>2
        <3>. QED  BY <1>4, <2>1, <3>1 DEF Cards
    <2>3. CASE ~ asked(x)
        <3>1. card' = x.card
            BY <1>1, <2>3
        <3>. QED  BY <1>4, <2>1, <3>1
    <2>. QED  BY <2>2, <2>3
<1>8. status(x) \in Statuses
      /\ (~ x.hurt /\ ~ card.error => status(x) = "NONE")
    BY <1>5, <1>6
<1>. HIDE DEF status, asked
<1>9. /\ call' \in Calls /\ Alike(call', call) /\ call'.status = status(x)
      /\ ~ call'.hurt => ~ call.hurt /\ ~ x.hurt
      /\ pc' = "release"
    BY <1>1, <1>2, <1>4, <1>8, UnderWay, EndsIs
<1>10. Carry
    BY <1>2, <1>7, <1>9, UnderWay DEF Carry, Carried, Alike
<1>11. /\ TypeInv' /\ InitInv' /\ CountInv' /\ GlueInv'
       /\ Transferring' <=> Transferring
       /\ Trusted' <=> Trusted
       /\ Extent' <=> Extent
    BY <1>10, CarryKeeps
<1>12. "release" \notin ReadPlaces \cup WritePlaces \cup Openings \cup Moving
                        \cup {"idle", "returned", "cmd12", "cmd13"}
    BY DEF ReadPlaces, WritePlaces, Openings, Moving
<1>13. CallInv'
    <2>1. Transferring' /\ Extent' /\ ~ sd'.noinit
        BY <1>2, <1>11, UnderWay DEF Extent
    <2>2. call'.op = "write" /\ call'.count > 0 /\ call'.done =< call'.count
        BY <1>2, <1>9, UnderWay DEF Alike
    <2>. QED  BY <1>9, <1>12, <2>1, <2>2 DEF CallInv
<1>14. StreamInv'
    BY <1>9, <1>12 DEF StreamInv
<1>15. PeaceInv'
    <2>1. ASSUME ~ call'.hurt
          PROVE  /\ ~ card'.error
                 /\ Trusted' =>
                       /\ call'.done = call'.count
                       /\ call'.status = "NONE"
                       /\ \A i \in 1 .. call'.done :
                             buf'[i] = card'.store[call'.sector + i - 1]
        BY <1>2, <1>7, <1>8, <1>9, <1>11, <2>1, UnderWay
           DEF Inv, PeaceInv, Alike
    <2>. QED  BY <1>9, <1>12, <2>1 DEF PeaceInv
<1>. QED  BY <1>11, <1>13, <1>14, <1>15 DEF Inv

LEMMA ReleaseKeeps ==
    ASSUME Inv, Release, UNCHANGED <<glue, told>>
    PROVE  Inv'
<1>1. /\ pc = "release" /\ pc' = "returned"
      /\ card' = [card EXCEPT !.stream = "none"]
      /\ UNCHANGED <<sd, call, buf, tries>>
    BY DEF Release
<1>2. card \in Cards /\ call \in Calls /\ buf \in Buffer
    BY DEF Inv, TypeInv
<1>3. /\ card' \in Cards /\ SameCard(card', card)
      /\ card'.mode = card.mode /\ card'.crc = card.crc
      /\ card'.busy = card.busy /\ card'.stream = "none"
    BY <1>1, <1>2 DEF Cards, SameCard
<1>4. Carry
    BY <1>1, <1>2, <1>3 DEF Carry, Carried, SameCard
<1>5. /\ TypeInv' /\ InitInv' /\ CountInv' /\ GlueInv'
      /\ Transferring' <=> Transferring
      /\ Trusted' <=> Trusted
      /\ Extent' <=> Extent
    BY <1>4, CarryKeeps
<1>6. /\ "returned" \notin ReadPlaces \cup WritePlaces \cup Openings \cup Moving
                           \cup {"idle", "release", "cmd12", "cmd13"}
    BY DEF ReadPlaces, WritePlaces, Openings, Moving
<1>7. CallInv'
    BY <1>1, <1>5, <1>6 DEF Inv, CallInv
<1>8. StreamInv'
    BY <1>1, <1>3, <1>6 DEF StreamInv
<1>9. PeaceInv'
    BY <1>1, <1>3, <1>5, <1>6 DEF Inv, PeaceInv, SameCard
<1>. QED  BY <1>5, <1>7, <1>8, <1>9 DEF Inv
-----------------------------------------------------------------------------
(* A block is written. *)
Writing == {"CMD24", "CMD25"}

Put(v) == [Streamed EXCEPT !.store[card.at] = v, !.busy = TRUE]

LEMMA PutIs ==
    ASSUME card \in Cards, Sends(Writing), NEW v \in Block
    PROVE  /\ Put(v) \in Cards
           /\ Put(v).store = [card.store EXCEPT ![card.at] = v]
           /\ Put(v).kind = card.kind /\ Put(v).mode = card.mode
           /\ Put(v).crc = card.crc /\ Put(v).error = card.error
           /\ Put(v).at = card.at + 1
           /\ Put(v).stream = IF card.stream \in Single THEN "none"
                                                        ELSE card.stream
<1>1. card.at < NumSectors
    BY DEF Sends
<1>2. /\ Streamed \in Cards
      /\ SameCard(Streamed, card)
      /\ Streamed.mode = card.mode /\ Streamed.crc = card.crc
      /\ Streamed.at = card.at + 1
      /\ Streamed.stream = IF card.stream \in Single THEN "none"
                                                     ELSE card.stream
    BY <1>1, StreamedIs
<1>. DEFINE t == Streamed
            f == [card.store EXCEPT ![card.at] = v]
<1>3. t.store = card.store
    BY <1>2 DEF SameCard
<1>4. f \in [Sector -> Block]
    BY DEF Cards
<1>5. t \in Cards /\ SameCard(t, card)
      /\ t.mode = card.mode /\ t.crc = card.crc
      /\ t.at = card.at + 1
      /\ t.stream = IF card.stream \in Single THEN "none" ELSE card.stream
    BY <1>2
<1>6. Put(v) = [t EXCEPT !.store[card.at] = v, !.busy = TRUE]
    BY DEF Put
<1>. HIDE DEF t
<1>7. Put(v) = [t EXCEPT !.store = f, !.busy = TRUE]
    BY <1>3, <1>5, <1>6 DEF Cards
<1>. HIDE DEF f
<1>8. /\ Put(v) \in Cards
      /\ Put(v).store = f
      /\ Put(v).kind = t.kind /\ Put(v).mode = t.mode
      /\ Put(v).crc = t.crc /\ Put(v).error = t.error
      /\ Put(v).at = t.at /\ Put(v).stream = t.stream
    BY <1>4, <1>5, <1>7 DEF Cards
<1>. QED  BY <1>5, <1>8 DEF SameCard, f

(* A card at which a block has come to v. *)
Holding(c, v) ==
    /\ c \in Cards
    /\ c.store = [card.store EXCEPT ![card.at] = v]
    /\ c.kind = card.kind /\ c.mode = card.mode /\ c.crc = card.crc
    /\ c.at = card.at + 1
    /\ c.stream = IF card.stream \in Single THEN "none" ELSE card.stream

LEMMA ProgramsIs ==
    ASSUME card \in Cards, NEW b \in Block, NEW x \in Programs(b)
    PROVE  /\ x.ok \in BOOLEAN /\ x.hurt \in BOOLEAN
           /\ ~ x.ok => x.card = card /\ (Sends(Writing) => x.hurt)
           /\ x.ok => /\ Sends(Writing)
                      /\ \E v \in Block : Holding(x.card, v)
                      /\ ~ x.hurt => Holding(x.card, b) /\ x.card.error = card.error
<1>1. /\ Sends(Writing) \in BOOLEAN
      /\ Garbage \in Block
    BY DEF Sends, Block
<1>2. CASE ~ Sends(Writing)
    <2>1. x = [ok |-> FALSE, hurt |-> 0 > 0, cost |-> 0, card |-> card]
        BY <1>2 DEF Programs, Writing
    <2>2. x.ok = FALSE /\ x.hurt = FALSE /\ x.card = card
        <3>1. (0 > 0) = FALSE
            OBVIOUS
        <3>. QED  BY <2>1, <3>1
    <2>. QED  BY <1>2, <2>2
<1>3. CASE Sends(Writing)
    <2>1. \/ x = [ok |-> TRUE, hurt |-> FALSE, cost |-> IF FALSE THEN 1 ELSE 0,
                  card |-> Put(b)]
          \/ x = [ok |-> FALSE, hurt |-> 1 > 0, cost |-> 1, card |-> card]
          \/ x = [ok |-> TRUE, hurt |-> TRUE, cost |-> IF TRUE THEN 1 ELSE 0,
                  card |-> [Put(Garbage) EXCEPT !.error = TRUE]]
          \/ x = [ok |-> TRUE, hurt |-> TRUE, cost |-> IF TRUE THEN 1 ELSE 0,
                  card |-> Put(Garbage)]
        BY <1>3 DEF Programs, Put, Writing
    <2>2. Holding(Put(b), b) /\ Put(b).error = card.error
        BY <1>3, PutIs DEF Holding
    <2>3. Holding(Put(Garbage), Garbage)
        BY <1>1, <1>3, PutIs DEF Holding
    <2>4. Holding([Put(Garbage) EXCEPT !.error = TRUE], Garbage)
        <3>. DEFINE p == Put(Garbage)
        <3>1. Holding(p, Garbage)
            BY <2>3
        <3>. HIDE DEF p
        <3>2. Holding([p EXCEPT !.error = TRUE], Garbage)
            BY <3>1 DEF Holding, Cards
        <3>. QED  BY <3>2 DEF p
    <2>5. CASE x = [ok |-> TRUE, hurt |-> FALSE, cost |-> IF FALSE THEN 1 ELSE 0,
                    card |-> Put(b)]
        <3>1. x.ok = TRUE /\ x.hurt = FALSE /\ x.card = Put(b)
            BY <2>5
        <3>. QED  BY <1>3, <2>2, <3>1
    <2>6. CASE x = [ok |-> FALSE, hurt |-> 1 > 0, cost |-> 1, card |-> card]
        <3>0. (1 > 0) = TRUE
            OBVIOUS
        <3>1. x.ok = FALSE /\ x.hurt = TRUE /\ x.card = card
            BY <2>6, <3>0
        <3>. QED  BY <3>1
    <2>7. CASE x = [ok |-> TRUE, hurt |-> TRUE, cost |-> IF TRUE THEN 1 ELSE 0,
                    card |-> [Put(Garbage) EXCEPT !.error = TRUE]]
        <3>1. x.ok = TRUE /\ x.hurt = TRUE
              /\ x.card = [Put(Garbage) EXCEPT !.error = TRUE]
            BY <2>7
        <3>. QED  BY <1>1, <1>3, <2>4, <3>1
    <2>8. CASE x = [ok |-> TRUE, hurt |-> TRUE, cost |-> IF TRUE THEN 1 ELSE 0,
                    card |-> Put(Garbage)]
        <3>1. x.ok = TRUE /\ x.hurt = TRUE /\ x.card = Put(Garbage)
            BY <2>8
        <3>. QED  BY <1>1, <1>3, <2>3, <3>1
    <2>. QED  BY <2>1, <2>5, <2>6, <2>7, <2>8
<1>. QED  BY <1>2, <1>3

(* A block has been put on the card, or on what it takes for the place.    *)
Stores ==
    /\ Sends(Writing)
    /\ card' \in Cards
    /\ card'.kind = card.kind /\ card'.mode = card.mode /\ card'.crc = card.crc
    /\ card'.at = card.at + 1
    /\ \E v \in Block : card'.store = [card.store EXCEPT ![card.at] = v]
    /\ call'.done = call.done + 1
    /\ call'.status = call.status
    /\ pc' = IF call.done + 1 = call.count THEN "cmd13" ELSE "wblock"
    /\ pc' = "wblock" => card'.stream = IF card.stream \in Single THEN "none"
                                                                  ELSE card.stream
    /\ ~ call'.hurt =>
          /\ card'.store = [card.store EXCEPT ![card.at] = buf[call.done + 1]]
          /\ ~ card'.busy
          /\ card'.error = card.error

(* It has not. *)
Rejects ==
    /\ card' \in Cards
    /\ SameCard(card', card)
    /\ card'.mode = card.mode /\ card'.crc = card.crc
    /\ card'.busy => card.busy
    /\ call'.done = call.done
    /\ pc' = "cmd13"
    /\ Sends(Writing) => call'.hurt

LEMMA WriteBlockIs ==
    ASSUME Inv, WriteBlock
    PROVE  /\ Stores \/ Rejects
           /\ sd' = sd /\ buf' = buf /\ tries' = tries
           /\ call' \in Calls
           /\ call'.op = call.op /\ call'.sector = call.sector
           /\ call'.count = call.count
           /\ ~ call'.hurt => ~ call.hurt
<1>1. pc = "wblock" /\ pc \in ReadPlaces \cup WritePlaces
      /\ sd' = sd /\ buf' = buf /\ tries' = tries
    BY DEF WriteBlock, WritePlaces
<1>2. call.done < call.count
    BY <1>1 DEF Inv, CallInv, Moving
<1>. DEFINE b == buf[call.done + 1]
<1>3. PICK x \in Programs(b) :
         \E w \in Wait(x.card) :
             LET last == ~ x.ok \/ call.done + 1 = call.count
             IN  /\ card' = Stopped(w.card, last)
                 /\ call' = [Hurts(x.hurt \/ w.hurt) EXCEPT
                               !.done = IF x.ok THEN @ + 1 ELSE @,
                               !.status = IF x.ok THEN @ ELSE "WRITE"]
                 /\ pc' = IF last THEN "cmd13" ELSE "wblock"
    BY DEF WriteBlock
<1>. DEFINE last == ~ x.ok \/ call.done + 1 = call.count
<1>4. PICK w \in Wait(x.card) :
         /\ card' = Stopped(w.card, last)
         /\ call' = [Hurts(x.hurt \/ w.hurt) EXCEPT
                       !.done = IF x.ok THEN @ + 1 ELSE @,
                       !.status = IF x.ok THEN @ ELSE "WRITE"]
         /\ pc' = IF last THEN "cmd13" ELSE "wblock"
    BY <1>3
<1>5. call.done + 1 \in 1 .. MaxBlocks /\ call.done \in 0 .. MaxBlocks
      /\ card \in Cards /\ call \in Calls /\ buf \in Buffer
    BY <1>1, <1>2, UnderWay, SdAssumption
<1>6. b \in Block
    BY <1>5 DEF Buffer, Index
<1>. HIDE DEF b
<1>7. /\ x.ok \in BOOLEAN /\ x.hurt \in BOOLEAN
      /\ ~ x.ok => x.card = card /\ (Sends(Writing) => x.hurt)
      /\ x.ok => /\ Sends(Writing)
                 /\ \E v \in Block : Holding(x.card, v)
                 /\ ~ x.hurt => Holding(x.card, b) /\ x.card.error = card.error
    BY <1>5, <1>6, ProgramsIs
<1>8. x.card \in Cards
    BY <1>5, <1>7 DEF Holding
<1>9. /\ w.card \in {x.card, [x.card EXCEPT !.busy = FALSE]}
      /\ w.card \in Cards /\ w.hurt \in BOOLEAN
      /\ ~ w.hurt => w.card = [x.card EXCEPT !.busy = FALSE]
    BY <1>8, WaitIs
<1>10. /\ SameCard(w.card, x.card)
       /\ w.card.mode = x.card.mode /\ w.card.crc = x.card.crc
       /\ w.card.at = x.card.at /\ w.card.stream = x.card.stream
       /\ w.card.busy => x.card.busy
       /\ ~ w.hurt => ~ w.card.busy
    BY <1>8, <1>9 DEF Cards, SameCard
<1>. HIDE DEF last
<1>11. /\ card' \in Cards /\ SameCard(card', w.card)
       /\ card'.mode = w.card.mode /\ card'.crc = w.card.crc
       /\ card'.at = w.card.at /\ card'.busy = w.card.busy
       /\ ~ last => card' = w.card
    <2>1. CASE last
        <3>1. card' = [w.card EXCEPT !.stream = "none"]
            BY <1>4, <2>1 DEF Stopped
        <3>. QED  BY <1>9, <2>1, <3>1 DEF Cards, SameCard
    <2>2. CASE ~ last
        <3>1. card' = w.card
            BY <1>4, <2>2 DEF Stopped
        <3>. QED  BY <1>9, <3>1 DEF SameCard
    <2>. QED  BY <2>1, <2>2
<1>. DEFINE h == x.hurt \/ w.hurt
            g == Hurts(h)
            n == IF x.ok THEN call.done + 1 ELSE call.done
            r == IF x.ok THEN call.status ELSE "WRITE"
<1>12. h \in BOOLEAN /\ (~ h => ~ x.hurt /\ ~ w.hurt)
    BY <1>7, <1>9
<1>13. /\ g \in Calls /\ Alike(g, call) /\ g.status = call.status
       /\ ~ g.hurt => ~ call.hurt /\ ~ h
    BY <1>5, <1>12, HurtsIs
<1>14. n \in 0 .. MaxBlocks /\ r \in Statuses
    BY <1>5, <1>7, SdAssumption DEF Calls, Statuses
<1>15. call' = [g EXCEPT !.done = IF x.ok THEN @ + 1 ELSE @,
                         !.status = IF x.ok THEN @ ELSE "WRITE"]
    BY <1>4
<1>. HIDE DEF g, h
<1>16. call' = [g EXCEPT !.done = n, !.status = r]
    BY <1>13, <1>15 DEF Calls, Alike
<1>. HIDE DEF n, r
<1>17. /\ call' \in Calls
       /\ call'.op = g.op /\ call'.sector = g.sector /\ call'.count = g.count
       /\ call'.done = n /\ call'.status = r /\ call'.hurt = g.hurt
    BY <1>13, <1>14, <1>16 DEF Calls
<1>18. /\ call'.op = call.op /\ call'.sector = call.sector
       /\ call'.count = call.count
       /\ ~ call'.hurt => ~ call.hurt /\ ~ x.hurt /\ ~ w.hurt
    BY <1>12, <1>13, <1>17 DEF Alike
<1>19. CASE x.ok
    <2>1. call'.done = call.done + 1 /\ call'.status = call.status
        BY <1>17, <1>19 DEF n, r
    <2>2. /\ card'.kind = card.kind /\ card'.mode = card.mode
          /\ card'.crc = card.crc /\ card'.at = card.at + 1
          /\ \E v \in Block : card'.store = [card.store EXCEPT ![card.at] = v]
          /\ ~ last => card'.stream = IF card.stream \in Single THEN "none"
                                                                 ELSE card.stream
        BY <1>7, <1>10, <1>11, <1>19 DEF Holding, SameCard
    <2>3. ASSUME ~ call'.hurt
          PROVE  /\ card'.store = [card.store EXCEPT ![card.at] = b]
                 /\ ~ card'.busy
                 /\ card'.error = card.error
        BY <1>7, <1>10, <1>11, <1>18, <1>19, <2>3 DEF Holding, SameCard
    <2>4. (last <=> call.done + 1 = call.count)
          /\ pc' = IF last THEN "cmd13" ELSE "wblock"
        BY <1>4, <1>19 DEF last
    <2>5. Stores
        BY <1>7, <1>11, <1>19, <2>1, <2>2, <2>3, <2>4 DEF Stores, b
    <2>. QED  BY <1>1, <1>17, <1>18, <2>5
<1>20. CASE ~ x.ok
    <2>1. last /\ pc' = "cmd13" /\ call'.done = call.done
        BY <1>4, <1>17, <1>20 DEF last, n
    <2>2. Rejects
        BY <1>7, <1>10, <1>11, <1>18, <1>20, <2>1 DEF Rejects, SameCard
    <2>. QED  BY <1>1, <1>17, <1>18, <2>2
<1>. QED  BY <1>7, <1>19, <1>20

LEMMA WriteBlockKeeps ==
    ASSUME Inv, WriteBlock, UNCHANGED <<glue, told>>
    PROVE  Inv'
<1>1. /\ pc = "wblock" /\ pc \in Moving /\ pc \notin ReadPlaces
      /\ pc \in ReadPlaces \cup WritePlaces
    BY DEF WriteBlock, Moving, ReadPlaces, WritePlaces
<1>2. call.done < call.count /\ call.op = "write" /\ call.status = "NONE"
      /\ Transferring /\ ~ sd.noinit
    BY <1>1, UnderWay DEF Inv, CallInv
<1>3. /\ Stores \/ Rejects
      /\ sd' = sd /\ buf' = buf /\ tries' = tries
      /\ call' \in Calls
      /\ call'.op = call.op /\ call'.sector = call.sector
      /\ call'.count = call.count
      /\ ~ call'.hurt => ~ call.hurt
    BY WriteBlockIs
<1>4. /\ card \in Cards /\ buf \in Buffer
      /\ call.done \in Nat /\ call.count \in 1 .. MaxBlocks /\ MaxBlocks \in Nat
      /\ call.sector \in Nat
    BY <1>1, <1>2, UnderWay, SdAssumption
<1>5. pc' \in {"wblock", "cmd13"}
    BY <1>3 DEF Stores, Rejects
<1>6. Carry
    BY <1>1, <1>2, <1>3, <1>4, <1>5
       DEF Carry, Carried, WritePlaces, Stores, Rejects, SameCard
<1>7. /\ TypeInv' /\ InitInv' /\ CountInv' /\ GlueInv'
      /\ Transferring' <=> Transferring
      /\ Trusted' <=> Trusted
      /\ Extent' <=> Extent
      /\ Opener' = Opener
    BY <1>6, CarryKeeps
<1>8. /\ pc' \notin ReadPlaces \cup Openings \cup {"idle", "returned", "release", "cmd12"}
      /\ pc' \in Moving \cup {"cmd13"} /\ "cmd13" \notin Moving
    BY <1>5 DEF ReadPlaces, Openings, Moving
<1>9. CallInv'
    <2>. Extent
        BY <1>1, UnderWay DEF Extent
    <2>1. Transferring' /\ Extent' /\ ~ sd'.noinit
        BY <1>2, <1>3, <1>7
    <2>2. pc' \in Moving => pc' = "wblock"
        BY <1>5, <1>8
    <2>3. /\ call'.done =< call'.count
          /\ pc' = "wblock" => call'.done < call'.count /\ call'.status = "NONE"
        BY <1>2, <1>3, <1>4 DEF Stores, Rejects
    <2>. QED  BY <1>2, <1>3, <1>4, <1>8, <2>1, <2>2, <2>3 DEF CallInv
<1>10. StreamInv'
    <2>1. ASSUME Trusted, pc' \in Moving, card'.stream # "none"
          PROVE  card'.stream = Opener /\ card'.at = call'.sector + call'.done
        <3>1. pc' = "wblock" /\ Stores
            BY <1>3, <1>5, <1>8, <2>1 DEF Rejects
        <3>2. card.stream # "none"
            BY <3>1 DEF Stores, Sends, Writing
        <3>3. card.stream = Opener /\ card.at = call.sector + call.done
            BY <1>1, <2>1, <3>2 DEF Inv, StreamInv
        <3>. QED  BY <1>3, <1>4, <2>1, <3>1, <3>3 DEF Stores
    <2>. QED  BY <1>7, <1>8, <2>1 DEF StreamInv
<1>11. PeaceInv'
    <2>1. ASSUME ~ call'.hurt
          PROVE  ~ card'.error
        BY <1>2, <1>3, <2>1 DEF Inv, PeaceInv, Stores, Rejects, SameCard
    <2>2. ASSUME ~ call'.hurt, Trusted'
          PROVE  /\ pc' \in Moving => card'.stream = Opener' /\ ~ card'.busy
                 /\ pc' = "cmd13" => call'.done = call'.count
                 /\ \A i \in 1 .. call'.done :
                       buf'[i] = card'.store[call'.sector + i - 1]
        <3>1. ~ call.hurt /\ Trusted
            BY <1>3, <1>7, <2>2
        <3>2. /\ card.stream = Opener /\ card.at = call.sector + call.done
              /\ Sends(Writing)
            BY <1>1, <1>2, <3>1, SendsIs DEF Writing
        <3>3. Stores
            BY <1>3, <2>2, <3>2 DEF Rejects
        <3>4. \A i \in 1 .. call.done : buf[i] = card.store[call.sector + i - 1]
            BY <1>2, <3>1 DEF Inv, PeaceInv
        <3>5. pc' \in Moving => Opener = "CMD25" /\ pc' = "wblock"
            BY <1>2, <1>4, <1>5, <3>3 DEF Opener, Moving, Stores
        <3>6. card.store \in [Sector -> Block] /\ card.at \in Sector
            <4>1. card.at < NumSectors /\ card.at \in 0 .. NumSectors
                BY <1>4, <3>2 DEF Sends, Cards
            <4>. QED  BY <1>4, <4>1, SdAssumption DEF Cards, Sector
        <3>7. card'.store = [card.store EXCEPT ![card.at] = buf[call.done + 1]]
            BY <2>2, <3>3 DEF Stores
        <3>8. ASSUME NEW i \in 1 .. call'.done
              PROVE  buf'[i] = card'.store[call'.sector + i - 1]
            <4>1. call'.done = call.done + 1
                BY <3>3 DEF Stores
            <4>2. CASE i \in 1 .. call.done
                <5>1. call.sector + i - 1 # card.at
                    BY <1>4, <3>2, <4>2
                <5>2. call.sector + i - 1 \in Sector
                    BY <1>4, <3>2, <3>6, <4>2, SdAssumption DEF Sector
                <5>. QED  BY <1>3, <3>4, <3>6, <3>7, <4>2, <5>1, <5>2
            <4>3. CASE i = call.done + 1
                <5>1. call.sector + i - 1 = card.at
                    BY <1>4, <3>2, <4>3
                <5>. QED  BY <1>3, <3>6, <3>7, <4>3, <5>1
            <4>. QED  BY <1>4, <4>1, <4>2, <4>3
        <3>9. pc' = "cmd13" => call'.done = call'.count
            BY <1>3, <3>3 DEF Stores
        <3>10. pc' \in Moving => card'.stream = Opener' /\ ~ card'.busy
            BY <1>7, <2>2, <3>2, <3>3, <3>5 DEF Stores, Single
        <3>. QED  BY <3>8, <3>9, <3>10
    <2>. QED  BY <1>8, <2>1, <2>2 DEF PeaceInv
<1>. QED  BY <1>7, <1>9, <1>10, <1>11 DEF Inv
-----------------------------------------------------------------------------
(* A call begins. *)
LEMMA FreshIs ==
    ASSUME card \in Cards, NEW op \in {"init", "size", "read", "write"},
           NEW s \in 0 .. NumSectors, NEW n \in 0 .. MaxBlocks
    PROVE  /\ Fresh(op, s, n) \in Calls
           /\ Fresh(op, s, n).op = op
           /\ Fresh(op, s, n).sector = s
           /\ Fresh(op, s, n).count = n
           /\ Fresh(op, s, n).done = 0
           /\ Fresh(op, s, n).status = "NONE"
           /\ Fresh(op, s, n).hurt = card.error
<1>1. NoCall \in Calls
    BY SdAssumption DEF NoCall, Calls, Statuses
<1>2. card.error \in BOOLEAN
    BY DEF Cards
<1>. QED  BY <1>1, <1>2 DEF Fresh, NoCall, Calls

LEMMA Resting ==
    ASSUME Inv, pc = "idle"
    PROVE  /\ call = NoCall /\ ~ Transferring /\ buf = Blank
           /\ card.stream = "none" /\ tries = 0
           /\ card \in Cards /\ sd \in Drives
<1>1. call = NoCall
    BY DEF Inv, CallInv
<1>2. ~ Transferring
    BY <1>1 DEF NoCall, Transferring
<1>3. card \in Cards /\ sd \in Drives /\ tries = 0
    BY DEF Inv, TypeInv, CountInv
<1>4. buf = Blank
    BY <1>2 DEF Inv, CallInv
<1>5. card.stream = "none"
    BY DEF Inv, StreamInv, Moving
<1>. QED  BY <1>1, <1>2, <1>3, <1>4, <1>5

(* A call begins that transfers nothing. *)
LEMMA PlainBegins ==
    ASSUME Inv, pc = "idle", NEW op \in {"init", "size"},
           NEW c \in {"start", "machine", "library"}, Serves(c),
           call' = Fresh(op, 0, 0),
           sd' \in Drives, sd'.noinit = sd.noinit, sd'.sectors = sd.sectors,
           pc' \in {"cmd0", "cmd9", "returned"},
           pc' = "cmd0" => op = "init" /\ sd.noinit,
           pc' = "cmd9" => op = "size",
           UNCHANGED <<card, buf, tries, mDiskBuf>>
    PROVE  Inv'
<1>1. /\ call = NoCall /\ ~ Transferring /\ buf = Blank
      /\ card.stream = "none" /\ tries = 0
      /\ card \in Cards /\ sd \in Drives
    BY Resting
<1>2. /\ call' \in Calls /\ call'.op = op /\ call'.done = 0
    BY <1>1, FreshIs, SdAssumption
<1>3. ~ Transferring'
    BY <1>2 DEF Transferring
<1>4. /\ pc' \notin ReadPlaces \cup WritePlaces \cup Openings \cup Moving
                   \cup {"idle", "cmd16", "acmd41", "cmd12", "cmd13", "release"}
      /\ pc' \in Places
      /\ pc' \in InitPlaces => pc' = "cmd0"
    BY DEF ReadPlaces, WritePlaces, Openings, Moving, Places, InitPlaces
<1>5. client' = c /\ ram' = ram /\ told' = Quiet
    BY DEF Serves
<1>6. TypeInv'
    BY <1>2, <1>4, <1>5 DEF Inv, TypeInv
<1>7. InitInv'
    BY <1>2, <1>4 DEF Inv, InitInv
<1>8. CountInv'
    BY <1>1, <1>4, SdAssumption DEF CountInv
<1>9. CallInv'
    BY <1>1, <1>2, <1>3, <1>4 DEF CallInv
<1>10. StreamInv'
    BY <1>1, <1>4 DEF StreamInv
<1>11. PeaceInv'
    BY <1>3 DEF PeaceInv
<1>12. GlueInv'
    <2>1. told'.who = "nobody"
        BY <1>5 DEF Quiet
    <2>2. MachineTransfers'
        BY <2>1 DEF MachineTransfers, Served
    <2>. QED  BY <1>3, <1>4, <1>5, <2>1, <2>2 DEF GlueInv
<1>. QED  BY <1>6, <1>7, <1>8, <1>9, <1>10, <1>11, <1>12 DEF Inv

LEMMA InitBegins ==
    ASSUME Inv, BeginInit, NEW c \in {"start", "machine", "library"}, Serves(c),
           UNCHANGED mDiskBuf
    PROVE  Inv'
<1>1. /\ pc = "idle" /\ call' = Fresh("init", 0, 0)
      /\ UNCHANGED <<card, buf, tries>>
      /\ IF sd.noinit
           THEN sd' = [sd EXCEPT !.type = "NONE"] /\ pc' = "cmd0"
           ELSE UNCHANGED sd /\ pc' = "returned"
    BY DEF BeginInit
<1>2. sd \in Drives
    BY DEF Inv, TypeInv
<1>3. /\ sd' \in Drives /\ sd'.noinit = sd.noinit /\ sd'.sectors = sd.sectors
      /\ pc' \in {"cmd0", "returned"} /\ (pc' = "cmd0" => sd.noinit)
    BY <1>1, <1>2 DEF Drives
<1>. QED  BY <1>1, <1>3, PlainBegins

LEMMA SizeBegins ==
    ASSUME Inv, BeginSize, NEW c \in {"start", "machine", "library"}, Serves(c),
           UNCHANGED mDiskBuf
    PROVE  Inv'
<1>1. /\ pc = "idle" /\ call' = Fresh("size", 0, 0) /\ pc' = "cmd9"
      /\ UNCHANGED <<card, sd, buf, tries>>
    BY DEF BeginSize
<1>2. sd' \in Drives
    BY <1>1 DEF Inv, TypeInv
<1>. QED  BY <1>1, <1>2, PlainBegins

(* A transfer begins. *)
Begins(op, s, n, b) ==
    /\ pc = "idle"
    /\ buf' = b
    /\ UNCHANGED <<card, sd, tries>>
    /\ call' \in Calls
    /\ call'.op = op /\ call'.sector = s /\ call'.count = n /\ call'.done = 0
    /\ call'.hurt = card.error
    /\ IF Refused(s, n)
         THEN call'.status = "PARAMETER" /\ pc' = "returned"
         ELSE call'.status = "NONE" /\ pc' = IF op = "read" THEN "rcmd"
                                             ELSE IF n > 1 THEN "acmd23"
                                             ELSE "wcmd"

LEMMA BeginsIs ==
    ASSUME Inv, NEW op \in {"read", "write"}, NEW s \in 0 .. NumSectors,
           NEW n \in Index, NEW b, BeginTransfer(op, s, n, b)
    PROVE  Begins(op, s, n, b)
<1>. DEFINE f == Fresh(op, s, n)
<1>1. card \in Cards /\ n \in 0 .. MaxBlocks
    BY SdAssumption DEF Inv, TypeInv, Index
<1>2. /\ f \in Calls /\ f.op = op /\ f.sector = s /\ f.count = n /\ f.done = 0
      /\ f.status = "NONE" /\ f.hurt = card.error
    BY <1>1, FreshIs
<1>3. pc = "idle" /\ buf' = b /\ UNCHANGED <<card, sd, tries>>
    BY DEF BeginTransfer
<1>4. IF Refused(s, n)
        THEN call' = [f EXCEPT !.status = "PARAMETER"] /\ pc' = "returned"
        ELSE call' = f /\ pc' = IF op = "read" THEN "rcmd"
                                ELSE IF n > 1 THEN "acmd23" ELSE "wcmd"
    BY DEF BeginTransfer
<1>. HIDE DEF f
<1>5. "PARAMETER" \in Statuses
    BY DEF Statuses
<1>6. CASE Refused(s, n)
    <2>1. call' = [f EXCEPT !.status = "PARAMETER"] /\ pc' = "returned"
        BY <1>4, <1>6
    <2>2. /\ call' \in Calls /\ call'.op = f.op /\ call'.sector = f.sector
          /\ call'.count = f.count /\ call'.done = f.done /\ call'.hurt = f.hurt
          /\ call'.status = "PARAMETER"
        BY <1>2, <1>5, <2>1 DEF Calls
    <2>. QED  BY <1>2, <1>3, <1>6, <2>1, <2>2 DEF Begins
<1>7. CASE ~ Refused(s, n)
    BY <1>2, <1>3, <1>4, <1>7 DEF Begins
<1>. QED  BY <1>6, <1>7

LEMMA TransferBegins ==
    ASSUME Inv, NEW op \in {"read", "write"}, NEW s \in 0 .. NumSectors,
           NEW n \in Index, NEW b \in Buffer, Begins(op, s, n, b),
           NEW c \in {"machine", "library"}, Serves(c), mDiskBuf' \in Block,
           c = "machine" => n = 1 /\ (op = "write" => b[1] = ram)
    PROVE  Inv'
<1>1. /\ call = NoCall /\ ~ Transferring /\ buf = Blank
      /\ card.stream = "none" /\ tries = 0
      /\ card \in Cards /\ sd \in Drives
    BY Resting DEF Begins
<1>2. /\ pc = "idle" /\ buf' = b
      /\ UNCHANGED <<card, sd, tries>>
      /\ call' \in Calls
      /\ call'.op = op /\ call'.sector = s /\ call'.count = n /\ call'.done = 0
      /\ call'.hurt = card.error
      /\ \/ Refused(s, n) /\ call'.status = "PARAMETER" /\ pc' = "returned"
         \/ ~ Refused(s, n) /\ call'.status = "NONE" /\ pc' \in Openings
      /\ pc' = "rcmd" => op = "read"
      /\ pc' \in {"acmd23", "wcmd"} => op = "write"
    BY DEF Begins, Openings
<1>3. client' = c /\ ram' = ram /\ told' = Quiet
    BY DEF Serves
<1>4. Transferring'
    BY <1>2 DEF Transferring
<1>5. n \in Nat /\ n > 0 /\ s \in Nat /\ MaxBlocks \in Nat
    BY SdAssumption DEF Index
<1>6. ~ Refused(s, n) => Extent' /\ ~ sd.noinit
    <2>1. ~ sd.noinit => sd.sectors = NumSectors
        BY DEF Inv, InitInv
    <2>. QED  BY <1>1, <1>2, <1>5, <2>1, SdAssumption DEF Refused, Extent, Drives
<1>7. Trusted' /\ Extent' => ~ Refused(s, n)
    <2>1. ~ sd.noinit => sd.sectors = NumSectors
        BY DEF Inv, InitInv
    <2>2. Trusted' => ~ sd.noinit
        BY <1>2 DEF Trusted
    <2>. QED  BY <1>2, <1>5, <2>1, <2>2, SdAssumption DEF Refused, Extent
<1>8. /\ pc' \in Openings \cup {"returned"} /\ pc' \in Places
      /\ pc' \notin InitPlaces \cup Moving
                    \cup {"idle", "cmd0", "acmd41", "cmd9", "cmd16",
                          "cmd12", "cmd13", "release"}
      /\ pc' \in ReadPlaces => pc' = "rcmd"
      /\ pc' \in WritePlaces => pc' \in {"acmd23", "wcmd"}
    BY <1>2 DEF Openings, Places, InitPlaces, Moving, ReadPlaces, WritePlaces
<1>9. TypeInv'
    BY <1>2, <1>3, <1>8 DEF Inv, TypeInv
<1>10. InitInv'
    BY <1>2, <1>8 DEF Inv, InitInv
<1>11. CountInv'
    BY <1>1, <1>2, <1>8 DEF CountInv
<1>12. CallInv'
    <2>1. "returned" \notin Openings \cup Moving
        BY DEF Openings, Moving
    <2>2. pc' = "returned" => Refused(s, n) /\ call'.status = "PARAMETER"
        BY <1>2, <2>1
    <2>3. pc' # "returned" => Extent' /\ ~ sd'.noinit /\ call'.status = "NONE"
        BY <1>2, <1>6
    <2>. QED  BY <1>2, <1>4, <1>5, <1>8, <2>1, <2>2, <2>3 DEF CallInv
<1>13. StreamInv'
    BY <1>1, <1>2, <1>8 DEF StreamInv
<1>14. PeaceInv'
    <2>1. 1 .. call'.done = {}
        BY <1>2
    <2>2. Trusted' => ~ (pc' = "returned" /\ Extent')
        BY <1>2, <1>7 DEF Openings
    <2>. QED  BY <1>2, <1>8, <2>1, <2>2 DEF PeaceInv
<1>15. GlueInv'
    <2>1. told'.who = "nobody"
        BY <1>3 DEF Quiet
    <2>2. MachineTransfers'
        BY <2>1 DEF MachineTransfers, Served
    <2>. QED  BY <1>2, <1>3, <1>8, <2>1, <2>2 DEF GlueInv
<1>. QED  BY <1>9, <1>10, <1>11, <1>12, <1>13, <1>14, <1>15 DEF Inv

(* A call is over. *)
LEMMA ReturnsKeeps ==
    ASSUME Inv, Returns, client' = "nobody", ram' \in Block, mDiskBuf' \in Block,
           MachineTransfers'
    PROVE  Inv'
<1>1. /\ pc = "returned" /\ pc' = "idle" /\ call' = NoCall /\ buf' = Blank
      /\ UNCHANGED <<card, sd, tries>>
    BY DEF Returns
<1>2. /\ "idle" \notin ReadPlaces \cup WritePlaces \cup Openings \cup Moving
                       \cup InitPlaces
      /\ "returned" \notin Moving \cup {"cmd12", "cmd13", "release"}
      /\ "idle" \in Places
    BY DEF ReadPlaces, WritePlaces, Openings, Moving, InitPlaces, Places
<1>3. /\ NoCall \in Calls /\ NoCall.op = "none" /\ NoCall.done = 0
    BY SdAssumption DEF NoCall, Calls, Statuses
<1>4. Blank \in Buffer
    BY DEF Blank, Buffer, Block
<1>5. ~ Transferring'
    BY <1>1, <1>3 DEF Transferring
<1>6. TypeInv'
    BY <1>1, <1>2, <1>3, <1>4 DEF Inv, TypeInv
<1>7. InitInv'
    BY <1>1, <1>2 DEF Inv, InitInv
<1>8. CountInv'
    BY <1>1 DEF Inv, CountInv
<1>9. CallInv'
    BY <1>1, <1>2, <1>3, <1>5 DEF CallInv
<1>10. StreamInv'
    BY <1>1, <1>2 DEF Inv, StreamInv
<1>11. PeaceInv'
    BY <1>5 DEF PeaceInv
<1>12. GlueInv'
    BY <1>1, <1>5 DEF GlueInv
<1>. QED  BY <1>6, <1>7, <1>8, <1>9, <1>10, <1>11, <1>12 DEF Inv

LEMMA StartedKeeps ==
    ASSUME Inv, Started
    PROVE  Inv'
<1>1. /\ Returns /\ client = "start" /\ client' = "nobody"
      /\ UNCHANGED <<ram, mDiskBuf, told>>
    BY DEF Started
<1>2. told'.who = "nobody"
    BY <1>1 DEF Inv, GlueInv
<1>3. MachineTransfers'
    BY <1>2 DEF MachineTransfers, Served
<1>. QED  BY <1>1, <1>3, ReturnsKeeps DEF Inv, TypeInv

LEMMA StorDoneKeeps ==
    ASSUME Inv, StorDone
    PROVE  Inv'
<1>1. /\ Returns /\ client = "machine" /\ client' = "nobody"
      /\ pc = "returned" /\ UNCHANGED <<card, sd>>
      /\ IF call.op = "read" THEN mDiskBuf' = buf[1] /\ ram' = buf[1]
                             ELSE UNCHANGED <<mDiskBuf, ram>>
    BY DEF StorDone, Returns
<1>2. told' = [who |-> client, op |-> call.op, sector |-> call.sector,
               ok |-> Reported, hurt |-> call.hurt]
    BY DEF StorDone, Result
<1>3. buf[1] \in Block /\ ram \in Block /\ mDiskBuf \in Block /\ call \in Calls
    BY SdAssumption DEF Inv, TypeInv, Buffer, Index
<1>4. ram' \in Block /\ mDiskBuf' \in Block
    BY <1>1, <1>3
<1>5. ASSUME NEW op \in {"read", "write"}, Served(op)'
      PROVE  ram' = card'.store[told'.sector]
    <2>1. /\ call.op = op /\ ~ call.hurt /\ told'.sector = call.sector
          /\ ~ sd.noinit /\ call.sector < NumSectors /\ card.crc /\ SameUnits
        BY <1>1, <1>2, <1>5 DEF Served, SameUnits
    <2>2. Transferring /\ Trusted
        BY <2>1 DEF Transferring, Trusted
    <2>3. call.count = 1 /\ (call.op = "write" => buf[1] = ram)
        BY <1>1, <2>2 DEF Inv, GlueInv
    <2>4. Extent
        BY <1>3, <2>1, <2>3, SdAssumption DEF Extent, Calls
    <2>5. call.done = 1 /\ \A i \in 1 .. call.done :
                              buf[i] = card.store[call.sector + i - 1]
        BY <1>1, <2>1, <2>2, <2>3, <2>4 DEF Inv, PeaceInv
    <2>6. buf[1] = card.store[call.sector]
        BY <1>3, <2>5 DEF Calls
    <2>. QED  BY <1>1, <2>1, <2>3, <2>6
<1>6. MachineTransfers'
    BY <1>5 DEF MachineTransfers
<1>. QED  BY <1>1, <1>4, <1>6, ReturnsKeeps

LEMMA DiskDoneKeeps ==
    ASSUME Inv, DiskDone
    PROVE  Inv'
<1>1. /\ Returns /\ client = "library" /\ client' = "nobody"
      /\ UNCHANGED <<ram, mDiskBuf>> /\ told'.who = "library"
    BY DEF DiskDone, Result
<1>2. MachineTransfers'
    BY <1>1 DEF MachineTransfers, Served
<1>. QED  BY <1>1, <1>2, ReturnsKeeps DEF Inv, TypeInv

(* The two steps that are nobody's call. *)
LEMMA StoreRamKeeps ==
    ASSUME Inv, NEW d \in Data, StoreRam(d)
    PROVE  Inv'
<1>1. /\ UNCHANGED <<card, sd, pc, call, buf, tries, client, mDiskBuf>>
      /\ client = "nobody" /\ ram' = d /\ told' = Quiet
    BY DEF StoreRam, vars
<1>2. ram' \in Block
    BY <1>1 DEF Block
<1>3. told'.who = "nobody"
    BY <1>1 DEF Quiet
<1>4. MachineTransfers'
    BY <1>3 DEF MachineTransfers, Served
<1>5. (Transferring' <=> Transferring) /\ (Trusted' <=> Trusted)
      /\ (Extent' <=> Extent) /\ Opener' = Opener
    BY <1>1 DEF Transferring, Trusted, SameUnits, Extent, Opener
<1>6. TypeInv' /\ InitInv' /\ CountInv'
    BY <1>1, <1>2 DEF Inv, TypeInv, InitInv, CountInv
<1>7. CallInv' /\ StreamInv' /\ PeaceInv'
    BY <1>1, <1>5 DEF Inv, CallInv, StreamInv, PeaceInv
<1>8. GlueInv'
    BY <1>1, <1>3, <1>4 DEF Inv, GlueInv
<1>. QED  BY <1>6, <1>7, <1>8 DEF Inv

LEMMA WarmedKeeps ==
    ASSUME Inv, Warmed, UNCHANGED <<glue, told>>
    PROVE  Inv'
<1>1. /\ card.mode = "warming" /\ card' = [card EXCEPT !.mode = "ready"]
      /\ UNCHANGED <<sd, pc, call, buf, tries, client, ram, mDiskBuf, told>>
    BY DEF Warmed, glue
<1>2. /\ card' \in Cards /\ card'.mode = "ready" /\ card'.kind = card.kind
      /\ card'.crc = card.crc /\ card'.busy = card.busy
      /\ card'.error = card.error /\ card'.stream = card.stream
      /\ card'.at = card.at /\ card'.store = card.store
    BY <1>1 DEF Inv, TypeInv, Cards
<1>3. (Transferring' <=> Transferring) /\ (Trusted' <=> Trusted)
      /\ (Extent' <=> Extent) /\ Opener' = Opener /\ (SameUnits' <=> SameUnits)
    BY <1>1, <1>2 DEF Transferring, Trusted, SameUnits, Extent, Opener
<1>4. TypeInv' /\ InitInv' /\ CountInv'
    BY <1>1, <1>2 DEF Inv, TypeInv, InitInv, CountInv
<1>5. CallInv' /\ StreamInv' /\ PeaceInv'
    BY <1>1, <1>2, <1>3 DEF Inv, CallInv, StreamInv, PeaceInv
<1>6. MachineTransfers'
    BY <1>1, <1>2, <1>3 DEF Inv, GlueInv, MachineTransfers, Served
<1>7. GlueInv'
    BY <1>1, <1>3, <1>6 DEF Inv, GlueInv
<1>. QED  BY <1>4, <1>5, <1>7 DEF Inv
-----------------------------------------------------------------------------
LEMMA InitIs ==
    ASSUME Init
    PROVE  Inv
<1>1. /\ pc = "idle" /\ call = NoCall /\ buf = Blank /\ tries = 0
      /\ client = "nobody" /\ ram \in Data /\ mDiskBuf \in Data /\ told = Quiet
      /\ sd = [noinit |-> TRUE, type |-> "NONE", sectors |-> 0]
    BY DEF Init
<1>2. card \in Cards /\ card.busy = FALSE /\ card.stream = "none"
    <2>1. card \in [kind : Kinds, flaws : FlawSets, mode : {"native"},
                    crc : {FALSE}, busy : {FALSE}, error : {FALSE},
                    stream : {"none"}, at : {0}, store : [Sector -> Data]]
        BY DEF Init
    <2>2. [Sector -> Data] \subseteq [Sector -> Block] /\ 0 \in 0 .. NumSectors
        BY SdAssumption DEF Block
    <2>. QED  BY <2>1, <2>2 DEF Cards
<1>3. "idle" \notin ReadPlaces \cup WritePlaces \cup Openings \cup Moving
                    \cup InitPlaces
      /\ "idle" \in Places
    BY DEF ReadPlaces, WritePlaces, Openings, Moving, InitPlaces, Places
<1>4. NoCall \in Calls /\ NoCall.op = "none" /\ NoCall.done = 0
    BY SdAssumption DEF NoCall, Calls, Statuses
<1>5. ~ Transferring
    BY <1>1, <1>4 DEF Transferring
<1>6. sd \in Drives /\ sd.noinit
    BY <1>1 DEF Drives
<1>7. TypeInv
    BY <1>1, <1>2, <1>3, <1>4, <1>6 DEF TypeInv, Blank, Buffer, Block
<1>8. InitInv /\ CountInv
    BY <1>1, <1>2, <1>3, <1>6 DEF InitInv, CountInv
<1>9. CallInv
    BY <1>1, <1>3, <1>4, <1>5 DEF CallInv
<1>10. StreamInv /\ PeaceInv
    BY <1>1, <1>2, <1>3, <1>5 DEF StreamInv, PeaceInv
<1>11. GlueInv
    <2>1. told.who = "nobody"
        BY <1>1 DEF Quiet
    <2>. QED  BY <1>1, <1>5, <2>1 DEF GlueInv, MachineTransfers, Served
<1>. QED  BY <1>7, <1>8, <1>9, <1>10, <1>11 DEF Inv

LEMMA DriverKeeps ==
    ASSUME Inv, Driver, UNCHANGED <<glue, told>>
    PROVE  Inv'
<1>1. CASE GoIdle
    BY <1>1, GoIdleSets, SetUpKeeps
<1>2. CASE Cmd8
    BY <1>2, Cmd8Sets, SetUpKeeps
<1>3. CASE CrcOn
    BY <1>3, CrcOnSets, SetUpKeeps
<1>4. CASE ReadOCR
    BY <1>4, ReadOCRSets, SetUpKeeps
<1>5. CASE Initialize
    BY <1>5, InitializeSets, SetUpKeeps
<1>6. CASE ReadCCS
    BY <1>6, ReadCCSSets, SetUpKeeps
<1>7. CASE ReadSize
    BY <1>7, ReadSizeSets, SetUpKeeps
<1>8. CASE SetBlockLength
    BY <1>8, SetBlockLengthSets, SetUpKeeps
<1>9. CASE ReadCommand
    BY <1>9, ReadCommandKeeps
<1>10. CASE ReadBlock
    BY <1>10, ReadBlockIs, ArrivesKeeps, MissesKeeps
<1>11. CASE StopReading
    BY <1>11, StopReadingKeeps
<1>12. CASE PreErase
    BY <1>12, PreEraseKeeps
<1>13. CASE WriteCommand
    BY <1>13, WriteCommandKeeps
<1>14. CASE WriteBlock
    BY <1>14, WriteBlockKeeps
<1>15. CASE AskStatus
    BY <1>15, AskStatusKeeps
<1>16. CASE Release
    BY <1>16, ReleaseKeeps
<1>. QED  BY <1>1, <1>2, <1>3, <1>4, <1>5, <1>6, <1>7, <1>8, <1>9, <1>10,
             <1>11, <1>12, <1>13, <1>14, <1>15, <1>16 DEF Driver

(* The buffers that callers hand over. *)
LEMMA BuffersAre ==
    /\ Blank \in Buffer
    /\ \A b \in Block : Alone(b) \in Buffer /\ Alone(b)[1] = b
    /\ 1 \in Index
<1>1. 1 \in Index
    BY SdAssumption DEF Index
<1>2. Blank \in Buffer
    BY DEF Blank, Buffer, Block
<1>. QED  BY <1>1, <1>2 DEF Alone, Buffer

LEMMA HypercallKeeps ==
    ASSUME Inv, Hypercall
    PROVE  Inv'
<1>1. ram \in Block /\ mDiskBuf \in Block
    BY DEF Inv, TypeInv
<1>2. ASSUME NEW s \in 0 .. NumSectors, StorRead(s)
      PROVE  Inv'
    <2>1. /\ BeginTransfer("read", s, 1, Alone(mDiskBuf)) /\ Serves("machine")
          /\ mDiskBuf' = mDiskBuf
        BY <1>2 DEF StorRead
    <2>2. Begins("read", s, 1, Alone(mDiskBuf))
        BY <2>1, BuffersAre, BeginsIs
    <2>3. Alone(mDiskBuf) \in Buffer
        BY <1>1, BuffersAre
    <2>. QED  BY <1>1, <2>1, <2>2, <2>3, BuffersAre, TransferBegins
<1>3. ASSUME NEW s \in 0 .. NumSectors, StorWrite(s)
      PROVE  Inv'
    <2>1. /\ BeginTransfer("write", s, 1, Alone(ram)) /\ Serves("machine")
          /\ mDiskBuf' = ram
        BY <1>3 DEF StorWrite
    <2>2. Begins("write", s, 1, Alone(ram))
        BY <2>1, BuffersAre, BeginsIs
    <2>3. Alone(ram) \in Buffer /\ Alone(ram)[1] = ram
        BY <1>1, BuffersAre
    <2>. QED  BY <1>1, <2>1, <2>2, <2>3, BuffersAre, TransferBegins
<1>4. CASE StorGetSize
    BY <1>4, SizeBegins DEF StorGetSize
<1>5. CASE StorDone
    BY <1>5, StorDoneKeeps
<1>. QED  BY <1>2, <1>3, <1>4, <1>5 DEF Hypercall

LEMMA LibraryKeeps ==
    ASSUME Inv, Library
    PROVE  Inv'
<1>1. mDiskBuf \in Block
    BY DEF Inv, TypeInv
<1>2. CASE disk_initialize
    BY <1>2, InitBegins DEF disk_initialize
<1>3. CASE disk_ioctl
    BY <1>3, SizeBegins DEF disk_ioctl
<1>4. CASE DiskDone
    BY <1>4, DiskDoneKeeps
<1>5. ASSUME NEW s \in 0 .. NumSectors, NEW n \in Index, disk_read(s, n)
      PROVE  Inv'
    <2>1. /\ BeginTransfer("read", s, n, Blank) /\ Serves("library")
          /\ mDiskBuf' = mDiskBuf
        BY <1>5 DEF disk_read
    <2>2. Begins("read", s, n, Blank)
        BY <2>1, BeginsIs
    <2>. QED  BY <1>1, <2>1, <2>2, BuffersAre, TransferBegins
<1>6. ASSUME NEW s \in 0 .. NumSectors, NEW n \in Index, NEW b \in Written(n),
             disk_write(s, n, b)
      PROVE  Inv'
    <2>1. /\ BeginTransfer("write", s, n, b) /\ Serves("library")
          /\ mDiskBuf' = mDiskBuf
        BY <1>6 DEF disk_write
    <2>2. Begins("write", s, n, b)
        BY <2>1, BeginsIs
    <2>3. b \in Buffer
        BY DEF Written
    <2>. QED  BY <1>1, <2>1, <2>2, <2>3, TransferBegins
<1>. QED  BY <1>2, <1>3, <1>4, <1>5, <1>6 DEF Library

LEMMA StutterKeeps ==
    ASSUME Inv, UNCHANGED all
    PROVE  Inv'
<1>1. UNCHANGED <<card, sd, pc, call, buf, tries, faults, booted, client, ram,
                  mDiskBuf, told>>
    BY DEF all, vars, glue
<1>2. (Transferring' <=> Transferring) /\ (Trusted' <=> Trusted)
      /\ (Extent' <=> Extent) /\ Opener' = Opener
      /\ (MachineTransfers' <=> MachineTransfers)
    BY <1>1 DEF Transferring, Trusted, SameUnits, Extent, Opener,
               MachineTransfers, Served
<1>3. TypeInv' /\ InitInv' /\ CountInv'
    BY <1>1 DEF Inv, TypeInv, InitInv, CountInv
<1>4. CallInv' /\ StreamInv' /\ PeaceInv' /\ GlueInv'
    BY <1>1, <1>2 DEF Inv, CallInv, StreamInv, PeaceInv, GlueInv
<1>. QED  BY <1>3, <1>4 DEF Inv

LEMMA NextKeeps ==
    ASSUME Inv, Next
    PROVE  Inv'
<1>1. CASE sdCardInit
    BY <1>1, InitBegins DEF sdCardInit
<1>2. CASE Started
    BY <1>2, StartedKeeps
<1>3. CASE Hypercall
    BY <1>3, HypercallKeeps
<1>4. CASE Library
    BY <1>4, LibraryKeeps
<1>5. CASE Serving
    BY <1>5, DriverKeeps DEF Serving
<1>6. ASSUME NEW d \in Data, StoreRam(d)
      PROVE  Inv'
    BY <1>6, StoreRamKeeps
<1>7. CASE Warmed /\ UNCHANGED <<glue, told>>
    BY <1>7, WarmedKeeps
<1>8. CASE Asserts /\ UNCHANGED <<glue, told>>
    BY <1>8, StutterKeeps DEF Asserts, all
<1>. QED  BY <1>1, <1>2, <1>3, <1>4, <1>5, <1>6, <1>7, <1>8 DEF Next

(* The disk as a whole keeps its invariant: the places of the driver fit   *)
(* the call it serves, the card is at the block the driver is at, and what *)
(* a transfer left in peace has moved is the same on both sides            *)
(* (sd_card_spi.c:401-1126, sd.c, soc_rp2040.c:185-211).                   *)
THEOREM DiskIsSound == Spec => []Inv
<1>1. Init => Inv
    BY InitIs
<1>2. Inv /\ [Next]_all => Inv'
    BY NextKeeps, StutterKeeps
<1>. QED  BY <1>1, <1>2, PTL DEF Spec

(* A card that is served as initialized is ready and its size is known,    *)
(* though the loop that waits for it may end without an error while the    *)
(* card is idle (sd_card_spi.c:1021-1032, 1098-1116).                      *)
THEOREM InitializedIsReady == Spec => []InitSound
<1>1. Inv => InitSound
    BY DEF Inv, InitInv, InitSound
<1>. QED  BY <1>1, DiskIsSound, PTL

(* A hypercall left in peace moves its sector between card and memory by   *)
(* way of the one buffer, whatever calls before have left in it            *)
(* (soc_rp2040.c:185-211).                                                 *)
THEOREM HypercallsTransfer == Spec => []MachineTransfers
<1>1. Inv => MachineTransfers
    BY DEF Inv, GlueInv
<1>. QED  BY <1>1, DiskIsSound, PTL
-----------------------------------------------------------------------------
(* The way of a call through the driver. *)
LEMMA PositionIs ==
    /\ Position["idle"] = 0 /\ Position["returned"] = 1
    /\ Position["release"] = 2
    /\ Position["cmd13"] = 3 /\ Position["cmd12"] = 3
    /\ Position["rblock"] = 4 /\ Position["wblock"] = 4
    /\ Position["rcmd"] = 5 /\ Position["wcmd"] = 5 /\ Position["cmd16"] = 5
    /\ Position["acmd23"] = 6 /\ Position["cmd9"] = 6
    /\ Position["ccs"] = 7 /\ Position["acmd41"] = 8 /\ Position["cmd58"] = 9
    /\ Position["cmd59"] = 10 /\ Position["cmd8"] = 11 /\ Position["cmd0"] = 12
BY DEF Position

(* A step goes on to a later place, or stays and has less left to do; or   *)
(* it is the one that never comes back.                                    *)
Stuck == pc = "cmd9" /\ pc' = "asserted" /\ "csd" \in card.flaws

Onward == \/ Position[pc'] < Position[pc]
          \/ pc' = pc /\ Left' < Left
          \/ Stuck

LEMMA LoopsCount ==
    ASSUME Inv, pc' = pc,
           \/ pc = "cmd0" /\ tries' = tries + 1
           \/ pc = "acmd41" /\ tries' = tries + 1
           \/ /\ pc \in Moving
              /\ call'.count = call.count /\ call'.done = call.done + 1
    PROVE  Left' < Left
<1>1. tries \in Nat /\ call.done \in Nat /\ call.count \in Nat
    BY SdAssumption DEF Inv, TypeInv, Calls
<1>2. CASE pc = "cmd0" /\ tries' = tries + 1
    BY <1>1, <1>2, SdAssumption DEF Left
<1>3. CASE pc = "acmd41" /\ tries' = tries + 1
    BY <1>1, <1>3, SdAssumption DEF Left
<1>4. CASE /\ pc \in Moving
           /\ call'.count = call.count /\ call'.done = call.done + 1
    BY <1>1, <1>4 DEF Left, Moving
<1>. QED  BY <1>2, <1>3, <1>4

LEMMA LeftIsPositive ==
    ASSUME Inv
    PROVE  Left > 0
<1>1. tries \in Nat /\ call.done \in Nat /\ call.count \in Nat
    BY SdAssumption DEF Inv, TypeInv, Calls
<1>2. CASE pc = "cmd0"
    BY <1>1, <1>2, SdAssumption DEF Left, Inv, CountInv
<1>3. CASE pc = "acmd41"
    BY <1>1, <1>3, SdAssumption DEF Left, Inv, CountInv
<1>4. CASE pc \in {"rblock", "wblock"}
    BY <1>1, <1>4 DEF Left, Inv, CallInv, Moving
<1>5. CASE pc \notin {"cmd0", "acmd41", "rblock", "wblock"}
    BY <1>5 DEF Left
<1>. QED  BY <1>2, <1>3, <1>4, <1>5

LEMMA DriverGoesOn ==
    ASSUME Inv, Driver
    PROVE  Onward
<1>1. CASE GoIdle
    <2>1. pc = "cmd0" /\ \/ pc' \in {"cmd8", "release"}
                         \/ pc' = "cmd0" /\ tries' = tries + 1
        BY <1>1 DEF GoIdle, Proceeds, Ends
    <2>. QED  BY <2>1, PositionIs, LoopsCount DEF Onward
<1>2. CASE Cmd8
    <2>1. pc = "cmd8" /\ pc' \in {"cmd59", "release"}
        BY <1>2 DEF Cmd8, Proceeds, Ends
    <2>. QED  BY <2>1, PositionIs DEF Onward
<1>3. CASE CrcOn
    <2>1. pc = "cmd59" /\ pc' = "cmd58"
        BY <1>3 DEF CrcOn, Proceeds
    <2>. QED  BY <2>1, PositionIs DEF Onward
<1>4. CASE ReadOCR
    <2>1. pc = "cmd58" /\ pc' \in {"acmd41", "release"}
        BY <1>4 DEF ReadOCR, Proceeds, Ends
    <2>. QED  BY <2>1, PositionIs DEF Onward
<1>5. CASE Initialize
    <2>1. pc = "acmd41" /\ \/ pc' \in {"release", "ccs", "cmd9"}
                           \/ pc' = "acmd41" /\ tries' = tries + 1
        BY <1>5 DEF Initialize, Proceeds, Ends
    <2>. QED  BY <2>1, PositionIs, LoopsCount DEF Onward
<1>6. CASE ReadCCS
    <2>1. pc = "ccs" /\ pc' \in {"cmd9", "release"}
        BY <1>6 DEF ReadCCS, Proceeds, Ends
    <2>. QED  BY <2>1, PositionIs DEF Onward
<1>7. CASE ReadSize
    <2>1. pc = "cmd9" /\ (pc' \in {"cmd16", "release"} \/ Stuck)
        BY <1>7 DEF ReadSize, Proceeds, Ends, Asserted, Stuck
    <2>. QED  BY <2>1, PositionIs DEF Onward
<1>8. CASE SetBlockLength
    <2>1. pc = "cmd16" /\ pc' = "release"
        BY <1>8 DEF SetBlockLength, Ends
    <2>. QED  BY <2>1, PositionIs DEF Onward
<1>9. CASE ReadCommand
    <2>1. pc = "rcmd" /\ pc' \in {"rblock", "release"}
        BY <1>9 DEF ReadCommand, Opening, Proceeds, Ends
    <2>. QED  BY <2>1, PositionIs DEF Onward
<1>10. CASE ReadBlock
    <2>1. pc = "rblock" /\ (Arrives \/ Misses)
        BY <1>10, ReadBlockIs DEF ReadBlock
    <2>2. /\ pc \in Moving /\ call.done < call.count
          /\ call.count \in 1 .. MaxBlocks /\ call \in Calls
        BY <2>1, UnderWay DEF Inv, CallInv, Moving, ReadPlaces
    <2>3. CASE Arrives
        <3>1. call'.count = call.count /\ call'.done = call.done + 1
              /\ pc' \in {"rblock", "cmd12", "release"}
            BY <2>2, <2>3, GoesOnIs DEF Arrives
        <3>. QED  BY <2>1, <2>2, <3>1, PositionIs, LoopsCount DEF Onward
    <2>4. CASE Misses
        <3>1. pc' \in {"cmd12", "release"}
            BY <2>4 DEF Misses, ReadGoesOn
        <3>. QED  BY <2>1, <3>1, PositionIs DEF Onward
    <2>. QED  BY <2>1, <2>3, <2>4
<1>11. CASE StopReading
    <2>1. pc = "cmd12" /\ pc' = "release"
        BY <1>11 DEF StopReading, Ends
    <2>. QED  BY <2>1, PositionIs DEF Onward
<1>12. CASE PreErase
    <2>1. pc = "acmd23" /\ pc' = "wcmd"
        BY <1>12 DEF PreErase, Proceeds
    <2>. QED  BY <2>1, PositionIs DEF Onward
<1>13. CASE WriteCommand
    <2>1. pc = "wcmd" /\ pc' \in {"wblock", "release"}
        BY <1>13 DEF WriteCommand, Opening, Proceeds, Ends
    <2>. QED  BY <2>1, PositionIs DEF Onward
<1>14. CASE WriteBlock
    <2>1. /\ pc = "wblock" /\ (Stores \/ Rejects)
          /\ call'.count = call.count
        BY <1>14, WriteBlockIs DEF WriteBlock
    <2>2. pc \in Moving
        BY <2>1 DEF Moving
    <2>3. \/ pc' = "cmd13"
          \/ pc' = "wblock" /\ call'.done = call.done + 1
        BY <2>1 DEF Stores, Rejects
    <2>. QED  BY <2>1, <2>2, <2>3, PositionIs, LoopsCount DEF Onward
<1>15. CASE AskStatus
    <2>1. pc = "cmd13" /\ pc' = "release"
        BY <1>15 DEF AskStatus, Ends
    <2>. QED  BY <2>1, PositionIs DEF Onward
<1>16. CASE Release
    <2>1. pc = "release" /\ pc' = "returned"
        BY <1>16 DEF Release
    <2>. QED  BY <2>1, PositionIs DEF Onward
<1>. QED  BY <1>1, <1>2, <1>3, <1>4, <1>5, <1>6, <1>7, <1>8, <1>9, <1>10,
             <1>11, <1>12, <1>13, <1>14, <1>15, <1>16 DEF Driver

(* Whatever card and bus do, each step of the driver brings its call       *)
(* nearer to its end: a rank that starts at a number fixed by IdleRetries, *)
(* MaxPolls and MaxBlocks falls with every step                            *)
(* (sd_card_spi.c:415, 785, 904, 947, 1024).  The one exception is the     *)
(* assertion that a CSD of a structure other than 0 and 1 fails (639).     *)
THEOREM CallsComeToAnEnd == Spec => EveryCallEnds
<1>. DEFINE Nearer == Driver => \/ /\ Left > 0
                                   /\ \/ Position[pc'] < Position[pc]
                                      \/ pc' = pc /\ Left' < Left
                                \/ /\ pc = "cmd9"
                                   /\ pc' = "asserted"
                                   /\ "csd" \in card.flaws
<1>1. Inv /\ [Next]_all => [Nearer]_all
    <2>1. Inv /\ Driver => Left > 0 /\ Onward
        BY LeftIsPositive, DriverGoesOn
    <2>. QED  BY <2>1 DEF Onward, Stuck
<1>2. EveryCallEnds <=> [][Nearer]_all
    BY PTL DEF EveryCallEnds
<1>. QED  BY <1>1, <1>2, DiskIsSound, PTL DEF Spec
-----------------------------------------------------------------------------
(* The disk implements the device.  What the device sees of a call: *)
Asked == IF Transferring
           THEN [op |-> call.op, sector |-> call.sector,
                 count |-> call.count, done |-> call.done]
           ELSE [op |-> "none", sector |-> 0, count |-> 0, done |-> 0]

Told == IF Transferring /\ pc = "returned"
          THEN IF call.status = "NONE" THEN "ok" ELSE "failed"
          ELSE "none"

Struck == Transferring /\ call.hurt

(* The names of the device that stand for the same here. *)
LEMMA SameNames ==
    /\ D!Sector = Sector /\ D!Index = Index
    /\ D!None = [op |-> "none", sector |-> 0, count |-> 0, done |-> 0]
    /\ [Index -> Block] = Buffer
BY DEF D!Sector, Sector, D!Index, Index, D!None, Buffer

LEMMA AskedIs ==
    /\ Transferring => /\ Asked.op = call.op /\ Asked.sector = call.sector
                       /\ Asked.count = call.count /\ Asked.done = call.done
                       /\ Asked # D!None
    /\ ~ Transferring => Asked = D!None /\ ~ Struck /\ Told = "none"
BY DEF Asked, Told, Struck, D!None, Transferring

LEMMA AskedKept ==
    ASSUME Transferring, call'.op = call.op, call'.sector = call.sector,
           call'.count = call.count
    PROVE  /\ Transferring'
           /\ call'.done = call.done => Asked' = Asked
           /\ call'.done = call.done + 1 =>
                 Asked' = [Asked EXCEPT !.done = @ + 1]
BY DEF Transferring, Asked

(* The steps of the device, one by one, in the terms of the driver. *)
LEMMA NothingMaps ==
    ASSUME card'.store = card.store, buf' = buf, Asked' = Asked, Told' = Told,
           Struck' <=> Struck, sd'.noinit <=> sd.noinit, Trusted' <=> Trusted
    PROVE  UNCHANGED D!vars
BY DEF D!vars, Asked, Told, Struck, Trusted

LEMMA DisturbMaps ==
    ASSUME card'.store = card.store, buf' = buf, Asked' = Asked, Told' = Told,
           Struck', sd'.noinit <=> sd.noinit, Trusted' <=> Trusted
    PROVE  D!Disturb
BY DEF D!Disturb, Asked, Told, Struck, Trusted

LEMMA InitializeMaps ==
    ASSUME card'.store = card.store, buf' = buf, ~ Transferring, ~ Transferring',
           ~ sd'.noinit
    PROVE  D!Initialize
BY DEF D!Initialize, D!None, Transferring, SameUnits

LEMMA ReportMaps ==
    ASSUME card'.store = card.store, buf' = buf, Asked' = Asked, Transferring,
           Transferring', Told = "none", pc' = "returned",
           call'.status = call.status,
           Struck' <=> Struck, sd'.noinit <=> sd.noinit, Trusted' <=> Trusted,
           call.status = "NONE" /\ call.op = "read" => call.done = call.count,
           Trusted /\ ~ Struck => call.status = "NONE" /\ call.done = call.count
    PROVE  \E ok \in BOOLEAN : D!Report(ok)
<1>1. D!Report(call.status = "NONE")
    BY AskedIs DEF D!Report, D!Open, D!Moved, Asked, Told, Struck, Trusted, D!None
<1>. QED  BY <1>1

LEMMA LeaveMaps ==
    ASSUME card'.store = card.store, buf' \in Buffer, Told # "none",
           ~ Transferring', sd'.noinit <=> sd.noinit, Trusted' <=> Trusted
    PROVE  D!Leave
BY SameNames DEF D!Leave, Told, Trusted, D!None
LEMMA AskMaps ==
    ASSUME card'.store = card.store, buf' \in Buffer, ~ Transferring,
           NEW op \in {"read", "write"}, NEW s \in 0 .. NumSectors,
           NEW n \in Index, Transferring',
           Asked' = [op |-> op, sector |-> s, count |-> n, done |-> 0],
           Told' = IF ~ sd.noinit /\ s + n =< NumSectors THEN "none" ELSE "failed",
           Struck' \in BOOLEAN, sd'.noinit <=> sd.noinit, Trusted' <=> Trusted
    PROVE  D!Ask
<1>1. Asked = D!None /\ Told = "none"
    BY AskedIs
<1>2. D!Fits(Asked') <=> ~ sd.noinit /\ s + n =< NumSectors
    BY DEF D!Fits
<1>. QED  BY <1>1, <1>2, SameNames
          DEF D!Ask, D!Fits, Asked, Told, Struck, Trusted

LEMMA ReadMoveMaps ==
    ASSUME Transferring, Told = "none", call.done < call.count,
           call.op = "read", card'.store = card.store,
           buf' = [buf EXCEPT ![call.done + 1]
                                = card.store[call.sector + call.done]],
           Asked' = [Asked EXCEPT !.done = @ + 1], Told' = Told,
           Struck' \in {Struck, TRUE},
           sd'.noinit <=> sd.noinit, Trusted' <=> Trusted
    PROVE  D!Move
<1>1. D!Active
    BY AskedIs DEF D!Active, D!Open, Asked, Told
<1>2. /\ Asked.op = "read" /\ Asked.done = call.done
      /\ Asked.sector = call.sector
    BY AskedIs
<1>. QED  BY <1>1, <1>2
          DEF D!Move, D!Counted, D!Here, Asked, Told, Struck, Trusted

LEMMA WriteMoveMaps ==
    ASSUME Transferring, Told = "none", call.done < call.count,
           call.op = "write", buf' = buf,
           card'.store = [card.store EXCEPT ![call.sector + call.done]
                                              = buf[call.done + 1]],
           Asked' = [Asked EXCEPT !.done = @ + 1], Told' = Told,
           Struck' \in {Struck, TRUE},
           sd'.noinit <=> sd.noinit, Trusted' <=> Trusted
    PROVE  D!Move
<1>1. D!Active
    BY AskedIs DEF D!Active, D!Open, Asked, Told
<1>2. /\ Asked.op = "write" /\ Asked.done = call.done
      /\ Asked.sector = call.sector
    BY AskedIs
<1>. QED  BY <1>1, <1>2
          DEF D!Move, D!Counted, D!Here, Asked, Told, Struck, Trusted

LEMMA SpoilReadMaps ==
    ASSUME Transferring, Told = "none", call.done < call.count,
           call.op = "read", card'.store = card.store, NEW b \in Block,
           buf' = [buf EXCEPT ![call.done + 1] = b],
           Asked' = Asked, Told' = Told, Struck',
           sd'.noinit <=> sd.noinit, Trusted' <=> Trusted
    PROVE  D!Spoil
<1>1. D!Active
    BY AskedIs DEF D!Active, D!Open, Asked, Told
<1>2. Asked.op = "read" /\ Asked.done = call.done
    BY AskedIs
<1>. QED  BY <1>1, <1>2 DEF D!Spoil, Asked, Told, Struck, Trusted

LEMMA SpoilWriteMaps ==
    ASSUME Transferring, Told = "none", call.done < call.count,
           call.op = "write", buf' = buf, NEW b \in Block,
           card'.store = [card.store EXCEPT ![call.sector + call.done] = b],
           Asked' = [Asked EXCEPT !.done = @ + 1], Told' = Told, Struck',
           sd'.noinit <=> sd.noinit, Trusted' <=> Trusted
    PROVE  D!Spoil
<1>1. D!Active
    BY AskedIs DEF D!Active, D!Open, Asked, Told
<1>2. /\ Asked.op = "write" /\ Asked.done = call.done
      /\ Asked.sector = call.sector
    BY AskedIs
<1>. QED  BY <1>1, <1>2
          DEF D!Spoil, D!Counted, D!Here, Asked, Told, Struck, Trusted

LEMMA StrayMaps ==
    ASSUME Transferring, Told = "none", ~ Trusted,
           card' \in Cards, buf' \in Buffer,
           Asked' = [Asked EXCEPT !.done = @ + 1], Told' = Told,
           Struck' \in BOOLEAN,
           sd'.noinit <=> sd.noinit, Trusted' <=> Trusted
    PROVE  D!Stray
<1>1. D!Open
    BY AskedIs DEF D!Open, Asked, Told
<1>2. card'.store \in [D!Sector -> Block] /\ buf' \in [D!Index -> Block]
    BY SameNames DEF Cards
<1>. QED  BY <1>1, <1>2 DEF D!Stray, D!Counted, Asked, Told, Struck, Trusted
-----------------------------------------------------------------------------
(* A step at which the device sees nothing, or that it is disturbed. *)
LEMMA AsideMaps ==
    ASSUME Inv, Inv', card'.store = card.store, buf' = buf,
           Transferring, Alike(call', call),
           pc # "returned", pc' # "returned",
           ~ call'.hurt => ~ call.hurt,
           sd' = sd, Trusted' <=> Trusted
    PROVE  [D!Next]_(D!vars)
<1>1. Transferring' /\ Asked' = Asked /\ Told = "none" /\ Told' = "none"
    BY AskedKept DEF Alike, Told
<1>2. (Struck' <=> Struck) \/ Struck'
    BY <1>1 DEF Struck
<1>3. CASE Struck' <=> Struck
    BY <1>1, <1>3, NothingMaps
<1>4. CASE Struck'
    BY <1>1, <1>4, DisturbMaps DEF D!Next
<1>. QED  BY <1>2, <1>3, <1>4

(* What moves a block: where it should be, or, without trust, anywhere. *)
LEMMA ArrivesMaps ==
    ASSUME Inv, Inv', Arrives, sd' = sd, Trusted' <=> Trusted
    PROVE  D!Next
<1>1. pc = "rblock" /\ pc \in Moving /\ pc \in ReadPlaces \cup WritePlaces
      /\ pc # "returned"
    BY DEF Arrives, Moving, ReadPlaces
<1>2. call.done < call.count /\ call.op = "read" /\ Transferring
      /\ call \in Calls /\ call.count \in 1 .. MaxBlocks
    BY <1>1, UnderWay DEF Inv, CallInv, ReadPlaces
<1>3. /\ call'.op = call.op /\ call'.sector = call.sector
      /\ call'.count = call.count /\ call'.done = call.done + 1
      /\ ~ call'.hurt => ~ call.hurt
      /\ pc' # "returned"
    BY <1>1, <1>2, GoesOnIs DEF Arrives
<1>4. /\ Transferring' /\ Asked' = [Asked EXCEPT !.done = @ + 1]
      /\ Told = "none" /\ Told' = "none"
    BY <1>1, <1>2, <1>3, AskedKept DEF Told
<1>5. Struck' \in {Struck, TRUE} /\ Struck' \in BOOLEAN
    BY <1>2, <1>3, <1>4 DEF Struck
<1>6. CASE Trusted
    <2>1. card.stream # "none" /\ card.at < NumSectors
        BY DEF Arrives, Sends, Reading
    <2>2. card.at = call.sector + call.done
        BY <1>1, <1>6, <2>1 DEF Inv, StreamInv
    <2>3. card'.store = card.store
        BY <1>1, <2>1, UnderWay, StreamedIs DEF Arrives, SameCard
    <2>4. buf' = [buf EXCEPT ![call.done + 1]
                               = card.store[call.sector + call.done]]
        BY <2>2 DEF Arrives
    <2>. QED  BY <1>2, <1>4, <1>5, <2>3, <2>4, ReadMoveMaps DEF D!Next
<1>7. CASE ~ Trusted
    BY <1>2, <1>4, <1>5, <1>7, StrayMaps DEF D!Next, Inv, TypeInv
<1>. QED  BY <1>6, <1>7

LEMMA MissesMaps ==
    ASSUME Inv, Inv', Misses, sd' = sd, Trusted' <=> Trusted
    PROVE  [D!Next]_(D!vars)
<1>1. pc = "rblock" /\ pc \in Moving /\ pc \in ReadPlaces \cup WritePlaces
      /\ pc # "returned"
    BY DEF Misses, Moving, ReadPlaces
<1>2. call.done < call.count /\ call.op = "read" /\ Transferring
      /\ call \in Calls /\ call.count \in 1 .. MaxBlocks
    BY <1>1, UnderWay DEF Inv, CallInv, ReadPlaces
<1>3. ASSUME NEW h \in BOOLEAN, ReadGoesOn(FALSE, h)
      PROVE  /\ Alike(call', call)
             /\ ~ call'.hurt => ~ call.hurt /\ ~ h
             /\ pc' # "returned"
    BY <1>2, <1>3, GoesOnIs DEF Alike
<1>4. CASE /\ Sends(Reading)
           /\ buf' = [buf EXCEPT ![call.done + 1] = Garbage]
           /\ card' = Streamed
           /\ ReadGoesOn(FALSE, TRUE)
    <2>1. Alike(call', call) /\ call'.hurt /\ pc' # "returned"
        BY <1>3, <1>4
    <2>2. /\ Transferring' /\ Asked' = Asked
          /\ Told = "none" /\ Told' = "none" /\ Struck'
        BY <1>1, <1>2, <2>1, AskedKept DEF Alike, Told, Struck
    <2>3. card'.store = card.store /\ Garbage \in Block
        BY <1>1, <1>4, UnderWay, StreamedIs DEF SameCard, Sends, Block
    <2>. QED  BY <1>2, <1>4, <2>2, <2>3, SpoilReadMaps DEF D!Next
<1>5. CASE ReadGoesOn(FALSE, Sends(Reading)) /\ UNCHANGED <<buf, card>>
    <2>1. Sends(Reading) \in BOOLEAN
        BY DEF Sends
    <2>2. Alike(call', call) /\ (~ call'.hurt => ~ call.hurt) /\ pc' # "returned"
        BY <1>3, <1>5, <2>1
    <2>. QED  BY <1>1, <1>2, <1>5, <2>2, AsideMaps
<1>. QED  BY <1>4, <1>5 DEF Misses

LEMMA WriteBlockMaps ==
    ASSUME Inv, Inv', WriteBlock, Trusted' <=> Trusted
    PROVE  [D!Next]_(D!vars)
<1>1. pc = "wblock" /\ pc \in Moving /\ pc \in ReadPlaces \cup WritePlaces
      /\ pc # "returned"
    BY DEF WriteBlock, Moving, WritePlaces
<1>2. call.done < call.count /\ call.op = "write" /\ Transferring
    BY <1>1, UnderWay DEF Inv, CallInv, WritePlaces
<1>3. /\ Stores \/ Rejects
      /\ sd' = sd /\ buf' = buf
      /\ call'.op = call.op /\ call'.sector = call.sector
      /\ call'.count = call.count
      /\ ~ call'.hurt => ~ call.hurt
    BY WriteBlockIs
<1>4. pc' # "returned"
    BY <1>3 DEF Stores, Rejects
<1>5. Transferring' /\ Told = "none" /\ Told' = "none"
      /\ Struck' \in {Struck, TRUE} /\ Struck' \in BOOLEAN
    BY <1>1, <1>2, <1>3, <1>4, AskedKept DEF Told, Struck
<1>6. CASE Rejects
    BY <1>1, <1>2, <1>3, <1>4, <1>6, AsideMaps DEF Rejects, SameCard, Alike
<1>7. CASE Stores
    <2>1. Asked' = [Asked EXCEPT !.done = @ + 1]
        BY <1>2, <1>3, <1>7, AskedKept DEF Stores
    <2>2. CASE Trusted
        <3>1. card.stream # "none"
            BY <1>7 DEF Stores, Sends, Writing
        <3>2. card.at = call.sector + call.done
            BY <1>1, <2>2, <3>1 DEF Inv, StreamInv
        <3>3. PICK v \in Block :
                  card'.store = [card.store EXCEPT ![card.at] = v]
            BY <1>7 DEF Stores
        <3>4. CASE Struck'
            BY <1>2, <1>3, <1>5, <2>1, <3>2, <3>3, <3>4, SpoilWriteMaps DEF D!Next
        <3>5. CASE ~ Struck'
            <4>1. card'.store = [card.store EXCEPT ![card.at] = buf[call.done + 1]]
                BY <1>5, <1>7, <3>5 DEF Stores, Struck
            <4>. QED  BY <1>2, <1>3, <1>5, <2>1, <3>2, <4>1, WriteMoveMaps
                      DEF D!Next
        <3>. QED  BY <3>4, <3>5
    <2>3. CASE ~ Trusted
        BY <1>2, <1>3, <1>5, <2>1, <2>3, StrayMaps DEF D!Next, Inv, TypeInv
    <2>. QED  BY <2>2, <2>3
<1>. QED  BY <1>3, <1>6, <1>7
-----------------------------------------------------------------------------
(* What the device does not see of a command: it is on its way, or hurt. *)
Unseen == /\ pc \in ReadPlaces \cup WritePlaces
          /\ pc' # "returned"
          /\ UNCHANGED <<sd, buf>>
          /\ card'.kind = card.kind
          /\ card'.store = card.store
          /\ card'.crc = card.crc
          /\ Alike(call', call)
          /\ ~ call'.hurt => ~ call.hurt

LEMMA OpeningIsUnseen ==
    ASSUME Inv, pc \in {"rcmd", "wcmd"}, NEW cmd \in Transfers,
           NEW there \in Moving, Opening(cmd, there)
    PROVE  Unseen
<1>. DEFINE status(x) == StatusOf(cmd, x.r)
<1>1. PICK x \in sd_cmd(card, cmd, Addr) :
         /\ Takes(x)
         /\ IF status(x) = "NONE" THEN Proceeds(there, x.hurt)
                                  ELSE Ends(status(x), x.hurt)
    BY DEF Opening
<1>2. sd' = sd /\ card' = x.card /\ buf' = buf
    BY <1>1 DEF Opening, Takes
<1>3. pc \in ReadPlaces \cup WritePlaces /\ cmd \notin {"CMD0", "CMD59"}
    BY DEF ReadPlaces, WritePlaces, Transfers, Reading
<1>4. x \in Answers /\ Obedient(x.card, card, cmd)
    BY <1>3, UnderWay, CmdIs
<1>5. x.hurt \in BOOLEAN /\ x.r \in (SUBSET Flag) \cup {NoResponse}
    BY <1>4 DEF Answers
<1>6. status(x) \in Statuses
    BY <1>5, StatusIs DEF Statuses
<1>. HIDE DEF status
<1>7. /\ Alike(call', call) /\ (~ call'.hurt => ~ call.hurt)
      /\ pc' \in {there, "release"}
    BY <1>1, <1>3, <1>5, <1>6, UnderWay, ProceedsIs, EndsIs
<1>8. pc' # "returned"
    BY <1>7 DEF Moving
<1>. QED  BY <1>2, <1>3, <1>4, <1>7, <1>8 DEF Unseen, Obedient, SameCard

LEMMA CommandsAreUnseen ==
    ASSUME Inv,
           ReadCommand \/ WriteCommand \/ PreErase \/ StopReading \/ AskStatus
    PROVE  Unseen
<1>1. CASE ReadCommand
    <2>1. /\ pc = "rcmd" /\ "rblock" \in Moving
          /\ {"CMD17", "CMD18"} \subseteq Transfers
          /\ \/ Opening("CMD18", "rblock") \/ Opening("CMD17", "rblock")
        BY <1>1 DEF ReadCommand, Moving, Transfers, Reading
    <2>. QED  BY <2>1, OpeningIsUnseen
<1>2. CASE WriteCommand
    <2>1. /\ pc = "wcmd" /\ "wblock" \in Moving
          /\ {"CMD24", "CMD25"} \subseteq Transfers
          /\ \/ Opening("CMD25", "wblock") \/ Opening("CMD24", "wblock")
        BY <1>2 DEF WriteCommand, Moving, Transfers
    <2>. QED  BY <2>1, OpeningIsUnseen
<1>3. CASE PreErase
    <2>1. PICK x \in sd_cmd(card, "ACMD23", call.count) :
             Takes(x) /\ Proceeds("wcmd", x.hurt)
        BY <1>3 DEF PreErase
    <2>2. /\ pc \in ReadPlaces \cup WritePlaces /\ sd' = sd
          /\ card' = x.card /\ buf' = buf
          /\ "ACMD23" \notin Transfers /\ "ACMD23" \notin {"CMD0", "CMD59"}
        BY <1>3, <2>1 DEF PreErase, WritePlaces, Transfers, Reading, Takes
    <2>3. Steady /\ x.hurt \in BOOLEAN /\ card'.crc = card.crc
        BY <2>2, UnderWay, TakesIs
    <2>4. Alike(call', call) /\ (~ call'.hurt => ~ call.hurt) /\ pc' = "wcmd"
        BY <2>1, <2>2, <2>3, UnderWay, ProceedsIs
    <2>. QED  BY <2>2, <2>3, <2>4 DEF Unseen, Steady, SameCard
<1>4. CASE StopReading
    <2>. DEFINE said(x) == StatusOf("CMD12", x.r)
                status(x) == IF call.status # "NONE" THEN call.status ELSE said(x)
    <2>1. PICK x \in sd_cmd(card, "CMD12", 0) :
             Takes(x) /\ Ends(status(x), x.hurt)
        BY <1>4 DEF StopReading
    <2>2. /\ pc \in ReadPlaces \cup WritePlaces /\ sd' = sd
          /\ card' = x.card /\ buf' = buf
          /\ "CMD12" \notin Transfers /\ "CMD12" \notin {"CMD0", "CMD59"}
        BY <1>4, <2>1 DEF StopReading, ReadPlaces, Transfers, Reading, Takes
    <2>3. Steady /\ x.hurt \in BOOLEAN /\ card'.crc = card.crc
          /\ said(x) \in Statuses
        BY <2>2, UnderWay, TakesIs
    <2>4. status(x) \in Statuses
        BY <2>2, <2>3, UnderWay DEF Calls
    <2>. HIDE DEF said, status
    <2>5. Alike(call', call) /\ (~ call'.hurt => ~ call.hurt) /\ pc' = "release"
        BY <2>1, <2>2, <2>3, <2>4, UnderWay, EndsIs
    <2>. QED  BY <2>2, <2>3, <2>5 DEF Unseen, Steady, SameCard
<1>5. CASE AskStatus
    <2>. DEFINE said(x) == StatusOf("CMD13", x.r)
                asked(x) == said(x) = "NONE" /\ ~ x.card.busy
                status(x) == IF asked(x) /\ card.error THEN "WRITE" ELSE said(x)
    <2>1. PICK x \in sd_cmd(card, "CMD13", 0) :
             /\ card' = IF asked(x) THEN [x.card EXCEPT !.error = FALSE] ELSE x.card
             /\ Ends(status(x), x.hurt)
        BY <1>5 DEF AskStatus
    <2>2. /\ pc \in ReadPlaces \cup WritePlaces /\ UNCHANGED <<sd, buf>>
          /\ "CMD13" \notin Transfers /\ "CMD13" \notin {"CMD0", "CMD59"}
        BY <1>5 DEF AskStatus, WritePlaces, Transfers, Reading
    <2>3. x \in Answers /\ Obedient(x.card, card, "CMD13")
        BY <2>2, UnderWay, CmdIs
    <2>4. x.card \in Cards /\ x.hurt \in BOOLEAN
          /\ x.r \in (SUBSET Flag) \cup {NoResponse}
        BY <2>3 DEF Answers
    <2>5. said(x) \in Statuses /\ "WRITE" \in Statuses
        BY <2>4, StatusIs DEF Statuses
    <2>6. status(x) \in Statuses
        BY <2>5
    <2>7. card' \in {x.card, [x.card EXCEPT !.error = FALSE]}
        BY <2>1
    <2>8. /\ card'.kind = x.card.kind /\ card'.store = x.card.store
          /\ card'.crc = x.card.crc
        BY <2>4, <2>7 DEF Cards
    <2>. HIDE DEF said, asked, status
    <2>9. Alike(call', call) /\ (~ call'.hurt => ~ call.hurt) /\ pc' = "release"
        BY <2>1, <2>2, <2>4, <2>6, UnderWay, EndsIs
    <2>. QED  BY <2>2, <2>3, <2>8, <2>9 DEF Unseen, Obedient, SameCard
<1>. QED  BY <1>1, <1>2, <1>3, <1>4, <1>5

LEMMA UnseenMaps ==
    ASSUME Inv, Inv', Unseen
    PROVE  [D!Next]_(D!vars)
<1>1. Transferring /\ pc # "returned"
    BY UnderWay DEF Unseen, ReadPlaces, WritePlaces
<1>2. Trusted' <=> Trusted
    BY DEF Unseen, Trusted, SameUnits
<1>. QED  BY <1>1, <1>2, AsideMaps DEF Unseen

(* The set-up of a card is nothing to the device until the card is ready. *)
LEMMA SetUpMaps ==
    ASSUME Inv, Inv', SetUp
    PROVE  [D!Next]_(D!vars)
<1>1. call.op \in {"init", "size"}
    BY DEF Inv, InitInv, SetUp, InitPlaces
<1>2. ~ Transferring /\ ~ Transferring'
    BY <1>1 DEF Transferring, SetUp, Alike
<1>3. /\ Asked' = Asked /\ Told' = Told /\ (Struck' <=> Struck)
      /\ card'.store = card.store /\ card'.kind = card.kind /\ buf' = buf
    BY <1>2 DEF Asked, Told, Struck, SetUp, Steady, SameCard
<1>4. CASE ~ sd.noinit
    <2>1. sd' = sd /\ card'.crc = card.crc
        BY <1>4 DEF SetUp
    <2>2. Trusted' <=> Trusted
        BY <1>3, <2>1 DEF Trusted, SameUnits
    <2>. QED  BY <1>3, <2>1, <2>2, NothingMaps
<1>5. CASE sd.noinit /\ sd'.noinit
    <2>1. ~ Trusted /\ ~ Trusted'
        BY <1>5 DEF Trusted
    <2>. QED  BY <1>3, <1>5, <2>1, NothingMaps
<1>6. CASE ~ sd'.noinit
    BY <1>2, <1>3, <1>6, InitializeMaps DEF D!Next
<1>. QED  BY <1>4, <1>5, <1>6

LEMMA ReleaseMaps ==
    ASSUME Inv, Inv', Release
    PROVE  [D!Next]_(D!vars)
<1>1. /\ pc = "release" /\ pc' = "returned"
      /\ card' = [card EXCEPT !.stream = "none"]
      /\ UNCHANGED <<sd, call, buf>>
    BY DEF Release
<1>2. /\ card'.store = card.store /\ card'.kind = card.kind
      /\ card'.crc = card.crc
    BY <1>1 DEF Inv, TypeInv, Cards
<1>3. (Trusted' <=> Trusted) /\ (Transferring' <=> Transferring)
    BY <1>1, <1>2 DEF Trusted, SameUnits, Transferring
<1>4. Asked' = Asked /\ Told = "none" /\ (Struck' <=> Struck)
    BY <1>1, <1>3 DEF Asked, Told, Struck
<1>5. CASE Transferring
    <2>1. call.status = "NONE" /\ call.op = "read" => call.done = call.count
        BY <1>1 DEF Inv, CallInv
    <2>2. Trusted /\ ~ Struck => call.status = "NONE" /\ call.done = call.count
        BY <1>1, <1>5 DEF Inv, PeaceInv, Struck
    <2>3. \E ok \in BOOLEAN : D!Report(ok)
        BY <1>1, <1>2, <1>3, <1>4, <1>5, <2>1, <2>2, ReportMaps
    <2>. QED  BY <2>3 DEF D!Next
<1>6. CASE ~ Transferring
    <2>1. Told' = "none"
        BY <1>3, <1>6 DEF Told
    <2>. QED  BY <1>1, <1>2, <1>3, <1>4, <2>1, NothingMaps
<1>. QED  BY <1>5, <1>6

LEMMA DriverMaps ==
    ASSUME Inv, Inv', Driver
    PROVE  [D!Next]_(D!vars)
<1>1. CASE \/ GoIdle \/ Cmd8 \/ CrcOn \/ ReadOCR \/ Initialize \/ ReadCCS
           \/ ReadSize \/ SetBlockLength
    BY <1>1, GoIdleSets, Cmd8Sets, CrcOnSets, ReadOCRSets, InitializeSets,
       ReadCCSSets, ReadSizeSets, SetBlockLengthSets, SetUpMaps
<1>2. CASE ReadCommand \/ WriteCommand \/ PreErase \/ StopReading \/ AskStatus
    BY <1>2, CommandsAreUnseen, UnseenMaps
<1>3. CASE ReadBlock
    <2>1. sd' = sd
        BY <1>3 DEF ReadBlock
    <2>2. card'.kind = card.kind /\ card'.crc = card.crc
        <3>1. pc \in ReadPlaces \cup WritePlaces
            BY <1>3 DEF ReadBlock, ReadPlaces
        <3>2. card' = card \/ (Sends(Reading) /\ card' = Streamed)
            BY <1>3 DEF ReadBlock
        <3>. QED  BY <3>1, <3>2, UnderWay, StreamedIs DEF SameCard, Sends
    <2>3. Trusted' <=> Trusted
        BY <2>1, <2>2 DEF Trusted, SameUnits
    <2>. QED  BY <1>3, <2>1, <2>3, ReadBlockIs, ArrivesMaps, MissesMaps
<1>4. CASE WriteBlock
    <2>1. /\ sd' = sd
          /\ card'.kind = card.kind /\ card'.crc = card.crc
        BY <1>4, WriteBlockIs DEF Stores, Rejects, SameCard
    <2>2. Trusted' <=> Trusted
        BY <2>1 DEF Trusted, SameUnits
    <2>. QED  BY <1>4, <2>2, WriteBlockMaps
<1>5. CASE Release
    BY <1>5, ReleaseMaps
<1>. QED  BY <1>1, <1>2, <1>3, <1>4, <1>5 DEF Driver
-----------------------------------------------------------------------------
(* Where a call begins or ends. *)
LEMMA PlainMaps ==
    ASSUME Inv, Inv', BeginInit \/ BeginSize
    PROVE  UNCHANGED D!vars
<1>1. /\ pc = "idle" /\ UNCHANGED <<card, buf>>
      /\ call' \in {Fresh("init", 0, 0), Fresh("size", 0, 0)}
      /\ \/ sd' = sd
         \/ sd.noinit /\ sd' = [sd EXCEPT !.type = "NONE"]
    BY DEF BeginInit, BeginSize
<1>2. ~ Transferring /\ card \in Cards /\ sd \in Drives
    BY <1>1, Resting
<1>3. call'.op \in {"init", "size"}
    BY <1>1, <1>2, FreshIs, SdAssumption
<1>4. ~ Transferring'
    BY <1>3 DEF Transferring
<1>5. Asked' = Asked /\ Told' = Told /\ (Struck' <=> Struck)
    BY <1>2, <1>4 DEF Asked, Told, Struck
<1>6. (sd'.noinit <=> sd.noinit) /\ (sd' = sd \/ sd.noinit)
    BY <1>1, <1>2 DEF Drives
<1>7. Trusted' <=> Trusted
    BY <1>1, <1>6 DEF Trusted, SameUnits
<1>. QED  BY <1>1, <1>5, <1>6, <1>7, NothingMaps

LEMMA BeginsMaps ==
    ASSUME Inv, Inv', NEW op \in {"read", "write"}, NEW s \in 0 .. NumSectors,
           NEW n \in Index, NEW b \in Buffer, BeginTransfer(op, s, n, b)
    PROVE  D!Next
<1>1. Begins(op, s, n, b)
    BY BeginsIs
<1>2. /\ pc = "idle" /\ buf' = b /\ UNCHANGED <<card, sd>>
      /\ call'.op = op /\ call'.sector = s /\ call'.count = n /\ call'.done = 0
      /\ call'.hurt = card.error
      /\ \/ Refused(s, n) /\ call'.status = "PARAMETER" /\ pc' = "returned"
         \/ ~ Refused(s, n) /\ pc' # "returned"
    BY <1>1 DEF Begins
<1>3. ~ Transferring /\ card \in Cards /\ sd \in Drives
    BY <1>2, Resting
<1>4. Transferring'
    BY <1>2 DEF Transferring
<1>5. Asked' = [op |-> op, sector |-> s, count |-> n, done |-> 0]
    BY <1>2, <1>4 DEF Asked
<1>6. ~ Refused(s, n) <=> ~ sd.noinit /\ s + n =< NumSectors
    <2>1. ~ sd.noinit => sd.sectors = NumSectors
        BY DEF Inv, InitInv
    <2>2. sd.sectors \in Int /\ NumSectors \in Int /\ s + n \in Int
        BY <1>3, SdAssumption DEF Drives, Index
    <2>. QED  BY <2>1, <2>2 DEF Refused
<1>7. Told' = IF ~ sd.noinit /\ s + n =< NumSectors THEN "none" ELSE "failed"
    BY <1>2, <1>4, <1>6 DEF Told
<1>8. Struck' \in BOOLEAN
    BY <1>2, <1>3, <1>4 DEF Struck, Cards
<1>9. Trusted' <=> Trusted
    BY <1>2 DEF Trusted, SameUnits
<1>10. D!Ask
    BY <1>2, <1>3, <1>4, <1>5, <1>7, <1>8, <1>9, AskMaps
<1>. QED  BY <1>10 DEF D!Next

LEMMA ReturnsMaps ==
    ASSUME Inv, Inv', Returns
    PROVE  [D!Next]_(D!vars)
<1>1. /\ pc = "returned" /\ call' = NoCall /\ buf' = Blank
      /\ UNCHANGED <<card, sd>>
    BY DEF Returns
<1>2. ~ Transferring'
    BY <1>1 DEF NoCall, Transferring
<1>3. Trusted' <=> Trusted
    BY <1>1 DEF Trusted, SameUnits
<1>4. CASE Transferring
    <2>1. Told # "none"
        BY <1>1, <1>4 DEF Told
    <2>. QED  BY <1>1, <1>2, <1>3, <2>1, BuffersAre, LeaveMaps DEF D!Next
<1>5. CASE ~ Transferring
    <2>1. buf' = buf
        BY <1>1, <1>5 DEF Inv, CallInv
    <2>2. Asked' = Asked /\ Told' = Told /\ (Struck' <=> Struck)
        BY <1>2, <1>5 DEF Asked, Told, Struck
    <2>. QED  BY <1>1, <1>3, <2>1, <2>2, NothingMaps
<1>. QED  BY <1>4, <1>5

(* The device does not see the card warm up, nor the machine's memory. *)
LEMMA ElsewhereMaps ==
    ASSUME Inv, Warmed \/ UNCHANGED vars
    PROVE  UNCHANGED D!vars
<1>1. UNCHANGED <<sd, pc, call, buf>>
    BY DEF Warmed, vars
<1>2. card'.store = card.store /\ card'.kind = card.kind /\ card'.crc = card.crc
    BY DEF Warmed, vars, Inv, TypeInv, Cards
<1>3. Asked' = Asked /\ Told' = Told /\ (Struck' <=> Struck)
    BY <1>1 DEF Asked, Told, Struck, Transferring
<1>4. Trusted' <=> Trusted
    BY <1>1, <1>2 DEF Trusted, SameUnits
<1>. QED  BY <1>1, <1>2, <1>3, <1>4, NothingMaps

LEMMA HypercallMaps ==
    ASSUME Inv, Inv', Hypercall
    PROVE  [D!Next]_(D!vars)
<1>1. /\ Alone(ram) \in Buffer /\ Alone(mDiskBuf) \in Buffer
    BY BuffersAre DEF Inv, TypeInv
<1>2. ASSUME NEW s \in 0 .. NumSectors, StorRead(s) \/ StorWrite(s)
      PROVE  D!Next
    <2>1. \/ BeginTransfer("read", s, 1, Alone(mDiskBuf))
          \/ BeginTransfer("write", s, 1, Alone(ram))
        BY <1>2 DEF StorRead, StorWrite
    <2>. QED  BY <1>1, <2>1, BuffersAre, BeginsMaps
<1>3. CASE StorGetSize
    BY <1>3, PlainMaps DEF StorGetSize
<1>4. CASE StorDone
    BY <1>4, ReturnsMaps DEF StorDone
<1>. QED  BY <1>2, <1>3, <1>4 DEF Hypercall

LEMMA LibraryMaps ==
    ASSUME Inv, Inv', Library
    PROVE  [D!Next]_(D!vars)
<1>1. CASE disk_initialize \/ disk_ioctl
    BY <1>1, PlainMaps DEF disk_initialize, disk_ioctl
<1>2. CASE DiskDone
    BY <1>2, ReturnsMaps DEF DiskDone
<1>3. ASSUME NEW s \in 0 .. NumSectors, NEW n \in Index, disk_read(s, n)
      PROVE  D!Next
    BY <1>3, BuffersAre, BeginsMaps DEF disk_read
<1>4. ASSUME NEW s \in 0 .. NumSectors, NEW n \in Index, NEW b \in Written(n),
             disk_write(s, n, b)
      PROVE  D!Next
    BY <1>4, BeginsMaps DEF disk_write, Written
<1>. QED  BY <1>1, <1>2, <1>3, <1>4 DEF Library

LEMMA StepMaps ==
    ASSUME Inv, Inv', [Next]_all
    PROVE  [D!Next]_(D!vars)
<1>1. CASE sdCardInit
    BY <1>1, PlainMaps DEF sdCardInit
<1>2. CASE Started
    BY <1>2, ReturnsMaps DEF Started
<1>3. CASE Hypercall
    BY <1>3, HypercallMaps
<1>4. CASE Library
    BY <1>4, LibraryMaps
<1>5. CASE Serving
    BY <1>5, DriverMaps DEF Serving
<1>6. ASSUME NEW d \in Data, StoreRam(d)
      PROVE  UNCHANGED D!vars
    BY <1>6, ElsewhereMaps DEF StoreRam
<1>7. CASE Warmed /\ UNCHANGED <<glue, told>>
    BY <1>7, ElsewhereMaps
<1>8. CASE Asserts \/ UNCHANGED all
    BY <1>8, ElsewhereMaps DEF Asserts, all
<1>. QED  BY <1>1, <1>2, <1>3, <1>4, <1>5, <1>6, <1>7, <1>8 DEF Next

LEMMA BeginningMaps ==
    ASSUME Init
    PROVE  D!Init
<1>1. Inv /\ buf = Blank /\ call = NoCall /\ sd.noinit
    BY InitIs DEF Init
<1>2. ~ Transferring
    BY <1>1 DEF NoCall, Transferring
<1>3. Asked = D!None /\ Told = "none" /\ ~ Struck
    BY <1>2, AskedIs
<1>4. card.store \in [D!Sector -> Block] /\ buf \in [D!Index -> Block]
    BY <1>1, SameNames, BuffersAre DEF Inv, TypeInv, Cards
<1>. QED  BY <1>1, <1>3, <1>4 DEF D!Init, Asked, Told, Struck

(* Whatever card and bus do, the disk is the device of BlockDevice to its  *)
(* callers: a transfer moves its blocks in order, each to or from its own  *)
(* sector, one that is left in peace succeeds and moves them all, and a    *)
(* read that reports success has moved them all, disturbed or not, unless  *)
(* card and driver count sectors differently or the card checks no CRCs    *)
(* (sd_card_spi.c:401-1126, glue.c:51-150, soc_rp2040.c:185-211).          *)
THEOREM DiskIsADevice == Spec => ImplementsDevice
<1>1. Init => D!Init
    BY BeginningMaps
<1>2. Inv /\ Inv' /\ [Next]_all => [D!Next]_(D!vars)
    BY StepMaps
<1>. QED  BY <1>1, <1>2, DiskIsSound, PTL DEF Spec, ImplementsDevice, D!Spec
=============================================================================
