-------------------------------- MODULE Silo --------------------------------
(***************************************************************************)
(* What a serial controller promises the program that drives it: the       *)
(* characters that arrive on a line it listens to come out in the order    *)
(* they arrived, the highest line first; one is lost only when its line    *)
(* already holds Capacity of them, and then the next character read from   *)
(* that line says so.                                                      *)
(***************************************************************************)
EXTENDS Integers, Sequences

CONSTANTS Line, Char, Capacity

VARIABLES queue,   \* queue[n]: the characters line n holds
          missed,  \* the lines that lost one since they were last read
          on,      \* the controller is switched on
          ears,    \* the lines it listens to
          loop,    \* what is sent is received too
          shown    \* what the last call did, as seen from outside

vars == <<queue, missed, on, ears, loop, shown>>

Nothing == [kind |-> "nothing"]

Init == /\ queue = [n \in Line |-> <<>>]
        /\ missed = {}
        /\ on \in BOOLEAN
        /\ ears = {}
        /\ loop = FALSE
        /\ shown = Nothing

Arrive(n, chr) ==
    IF ~ (on /\ n \in ears) THEN UNCHANGED <<queue, missed>>
    ELSE IF Len(queue[n]) < Capacity
         THEN /\ queue' = [queue EXCEPT ![n] = Append(@, chr)]
              /\ UNCHANGED missed
         ELSE /\ missed' = missed \cup {n}
              /\ UNCHANGED queue

Type(n, chr) == /\ Arrive(n, chr)
                /\ shown' = [kind |-> "typed", line |-> n, chr |-> chr]
                /\ UNCHANGED <<on, ears, loop>>

Send(n, chr) == /\ IF loop THEN Arrive(n, chr) ELSE UNCHANGED <<queue, missed>>
                /\ shown' = [kind |-> "sent", line |-> n, chr |-> chr]
                /\ UNCHANGED <<on, ears, loop>>

Take(n) == /\ on
           /\ queue[n] # <<>>
           /\ \A m \in Line : m > n => queue[m] = <<>>
           /\ shown' = [kind |-> "rbuf", line |-> n, ovr |-> n \in missed,
                        chr |-> Head(queue[n])]
           /\ queue' = [queue EXCEPT ![n] = Tail(@)]
           /\ missed' = missed \ {n}
           /\ UNCHANGED <<on, ears, loop>>

TakeNone == /\ on => \A n \in Line : queue[n] = <<>>
            /\ shown' = [kind |-> "empty"]
            /\ UNCHANGED <<queue, missed, on, ears, loop>>

Configure == /\ on' \in BOOLEAN
             /\ ears' \in SUBSET Line
             /\ loop' \in BOOLEAN
             /\ shown' = Nothing
             /\ UNCHANGED <<queue, missed>>

Clear == /\ queue' = [n \in Line |-> <<>>]
         /\ missed' = {}
         /\ on' = FALSE
         /\ ears' = {}
         /\ loop' = FALSE
         /\ shown' = Nothing

Next == \/ \E n \in Line, chr \in Char : Type(n, chr) \/ Send(n, chr)
        \/ \E n \in Line : Take(n)
        \/ TakeNone
        \/ Configure
        \/ Clear

Spec == Init /\ [][Next]_vars
=============================================================================
