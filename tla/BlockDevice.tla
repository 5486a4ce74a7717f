----------------------------- MODULE BlockDevice -----------------------------
(***************************************************************************)
(* What the driver of a card promises its callers.  A transfer moves its   *)
(* blocks in order, each to or from its own sector.  One that is left in   *)
(* peace succeeds and moves them all; one that is disturbed may stop       *)
(* early, or spoil the block it is at, and no other.  A read that reports  *)
(* success has moved all its blocks, disturbed or not; of a write that was *)
(* disturbed the report says nothing.  Nothing is promised of a card that  *)
(* is not to be trusted: one that does not check CRCs, or that counts its  *)
(* sectors in another way than its driver.                                 *)
(***************************************************************************)
EXTENDS Integers

CONSTANTS NumSectors, MaxBlocks, Block

VARIABLES disk,    \* the sectors
          buf,     \* the caller's buffer
          call,    \* the transfer that is asked for
          answer,  \* what its caller is told
          hurt,    \* it has been disturbed
          ready,   \* transfers are served
          trusted  \* the card and the driver agree, and damage is noticed

vars == <<disk, buf, call, answer, hurt, ready, trusted>>

Sector == 0 .. NumSectors - 1
Index == 1 .. MaxBlocks

None == [op |-> "none", sector |-> 0, count |-> 0, done |-> 0]

Init == /\ disk \in [Sector -> Block]
        /\ buf \in [Index -> Block]
        /\ call = None
        /\ answer = "none"
        /\ hurt = FALSE
        /\ ready = FALSE
        /\ trusted = FALSE

Fits(c) == ready /\ c.sector + c.count =< NumSectors

(* A transfer beyond the end, or before the device is ready, fails. *)
Ask == /\ call = None
       /\ \E op \in {"read", "write"}, s \in 0 .. NumSectors, n \in Index :
             call' = [op |-> op, sector |-> s, count |-> n, done |-> 0]
       /\ buf' \in [Index -> Block]
       /\ answer' = IF Fits(call') THEN "none" ELSE "failed"
       /\ hurt' \in BOOLEAN
       /\ UNCHANGED <<disk, ready, trusted>>

Open == call # None /\ answer = "none"
Here == call.sector + call.done
Active == Open /\ call.done < call.count

Counted == [call EXCEPT !.done = @ + 1]

Move == /\ Active
        /\ call' = Counted
        /\ IF call.op = "read"
             THEN /\ buf' = [buf EXCEPT ![call.done + 1] = disk[Here]]
                  /\ UNCHANGED disk
             ELSE /\ disk' = [disk EXCEPT ![Here] = buf[call.done + 1]]
                  /\ UNCHANGED buf
        /\ hurt' \in {hurt, TRUE}
        /\ UNCHANGED <<answer, ready, trusted>>

Spoil == /\ Active
         /\ \/ /\ call.op = "read"
               /\ \E b \in Block : buf' = [buf EXCEPT ![call.done + 1] = b]
               /\ UNCHANGED <<disk, call>>
            \/ /\ call.op = "write"
               /\ \E b \in Block : disk' = [disk EXCEPT ![Here] = b]
               /\ call' \in {call, Counted}
               /\ UNCHANGED buf
         /\ hurt' = TRUE
         /\ UNCHANGED <<answer, ready, trusted>>

Disturb == /\ hurt' = TRUE
           /\ UNCHANGED <<disk, buf, call, answer, ready, trusted>>

Moved == call.done = call.count

Report(ok) == /\ Open
              /\ ok /\ call.op = "read" => Moved
              /\ trusted /\ ~ hurt => ok /\ Moved
              /\ answer' = IF ok THEN "ok" ELSE "failed"
              /\ UNCHANGED <<disk, buf, call, hurt, ready, trusted>>

(* The caller has its answer, and what is in the buffer is its own again. *)
Leave == /\ answer # "none"
         /\ call' = None
         /\ answer' = "none"
         /\ hurt' = FALSE
         /\ buf' \in [Index -> Block]
         /\ UNCHANGED <<disk, ready, trusted>>

Initialize == /\ call = None
              /\ ready' = TRUE
              /\ trusted' \in BOOLEAN
              /\ UNCHANGED <<disk, buf, call, answer, hurt>>

(* Without trust a transfer may go anywhere. *)
Stray == /\ ~ trusted
         /\ Open
         /\ disk' \in [Sector -> Block]
         /\ buf' \in [Index -> Block]
         /\ hurt' \in BOOLEAN
         /\ call' \in {call, Counted}
         /\ UNCHANGED <<answer, ready, trusted>>

Next == \/ Ask \/ Move \/ Spoil \/ Disturb \/ Initialize \/ Stray \/ Leave
        \/ \E ok \in BOOLEAN : Report(ok)

Spec == Init /\ [][Next]_vars
=============================================================================
