------------------------------- MODULE Console -------------------------------
(***************************************************************************)
(* The console (console/console.c): core 1 puts characters into a queue,   *)
(* the loop of core 0 sends them and hands typed ones to the machine.  A   *)
(* panic is a message and a flag; core 0 stops for good when it finds the  *)
(* queue empty and then the flag set, two reads with time between them.    *)
(* Of the queue, which the SDK guards with a lock, there is its length.    *)
(***************************************************************************)
EXTENDS Integers

CONSTANTS QueueLen,  \* IO_QUEUE_LEN: 31
          MsgLen     \* characters of a message

VARIABLES queue,     \* characters that wait
          shldpanic,
          out,       \* characters core 1 has yet to put
          panics,    \* it puts a panic message
          core0,     \* where the loop of core 0 is
          typed      \* a character waits in the UART

ConsoleTypeOK == /\ queue \in 0 .. QueueLen
                 /\ shldpanic \in BOOLEAN
                 /\ out \in 0 .. MsgLen
                 /\ panics \in BOOLEAN
                 /\ core0 \in {"look", "take", "test", "flag", "typed", "halted"}
                 /\ typed \in BOOLEAN

(* console_init. *)
ConsoleInit == /\ queue = 0
               /\ shldpanic = FALSE
               /\ out = 0
               /\ panics = FALSE
               /\ core0 = "look"
               /\ typed = FALSE

(* Core 1 begins to print. *)
Quiet == out = 0 /\ ~ panics

console_printf_uart == out' = MsgLen /\ panics' = FALSE
console_panic_uart == out' = MsgLen /\ panics' = TRUE
Silent == UNCHANGED <<out, panics>>

(* Mutant: queue_add_blocking, as the line that is commented out has it. *)
console_putc_uart_blocking ==
    /\ out > 0
    /\ queue < QueueLen
    /\ queue' = queue + 1
    /\ out' = out - 1
    /\ UNCHANGED <<shldpanic, panics, core0, typed>>

(* Mutant: a queue that takes one more. *)
console_putc_uart_over ==
    /\ out > 0
    /\ queue' = IF queue =< QueueLen THEN queue + 1 ELSE queue
    /\ out' = out - 1
    /\ UNCHANGED <<shldpanic, panics, core0, typed>>

(* queue_try_add: what does not fit is dropped. *)
console_putc_uart ==
    /\ out > 0
    /\ queue' = IF queue < QueueLen THEN queue + 1 ELSE queue
    /\ out' = out - 1
    /\ UNCHANGED <<shldpanic, panics, core0, typed>>

(* The end of console_panic_uart, which returns to its caller. *)
PanicFlag == /\ out = 0
             /\ panics
             /\ shldpanic' = TRUE
             /\ panics' = FALSE
             /\ UNCHANGED <<queue, out, core0, typed>>

Prints == console_putc_uart \/ PanicFlag
-----------------------------------------------------------------------------
(* A step of ser_console_task from one place to another. *)
Core0(here, there) == /\ core0 = here
                      /\ core0' = there
                      /\ UNCHANGED <<shldpanic, out, panics>>

Look == /\ Core0("look", IF queue = 0 THEN "test" ELSE "take")
        /\ UNCHANGED <<queue, typed>>

Take == /\ Core0("take", "test")
        /\ queue > 0
        /\ queue' = queue - 1
        /\ UNCHANGED typed

TestEmpty == /\ Core0("test", IF queue = 0 THEN "flag" ELSE "typed")
             /\ UNCHANGED <<queue, typed>>

TestPanic == /\ Core0("flag", IF shldpanic THEN "halted" ELSE "typed")
             /\ UNCHANGED <<queue, typed>>

(* Mutant: the read of the UART waits for a character. *)
Typed_blocking == /\ Core0("typed", "look")
                  /\ typed
                  /\ typed' = FALSE
                  /\ UNCHANGED queue

(* What was typed goes to dz11charRx, which module DZ11 has. *)
Typed == /\ Core0("typed", "look")
         /\ typed' = FALSE
         /\ UNCHANGED queue

ser_console_task == Look \/ Take \/ TestEmpty \/ TestPanic \/ Typed

Types == /\ typed' = TRUE
         /\ UNCHANGED <<queue, shldpanic, out, panics, core0>>
=============================================================================
