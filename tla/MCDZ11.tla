------------------------------- MODULE MCDZ11 -------------------------------
(* An instance of DZ11 for TLC. *)
EXTENDS DZ11

(* Every interrupt source, the loopback, and the device switched off. *)
AllWords == {{"MSE", "RIE"}, {"MSE", "RIE", "SAE"}, {"MSE", "TIE"},
             {"MSE", "RIE", "MAINT"}, {}, {"CLR"}}
AllLines == SUBSET Line

(* The machine only receives, and only on the console line. *)
Receiver(d) == /\ d.csr \subseteq {"MSE", "RIE"}
               /\ d.tcr = {}
               /\ \A n \in Line \ {ConsoleLine} : d.line[n] = Cleared.line[n]

AllAlike(d) == \A n \in Line : d.line[n].buf = Cleared.line[n].buf

(* Bound: characters differ only while the machine is a receiver. *)
Kept == /\ AllAlike(gDZ11') \/ Receiver(gDZ11')
        /\ shown'.kind = "sent" => shown'.chr = NUL

KeptSpec == Init /\ [][Next /\ Kept]_vars
=============================================================================
