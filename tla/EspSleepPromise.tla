-------------------------- MODULE EspSleepPromise --------------------------
(***************************************************************************)
(* What esp_power promises about a sleep, whoever wants it (esp_power.h):   *)
(* one at a time; the board is down only on someone's behalf; and whoever   *)
(* began a sleep has control back only after the board slept, or, after a   *)
(* deep sleep, never: a boot follows.                                       *)
(***************************************************************************)

VARIABLES
    chip,   \* "awake", "light" (RAM kept), "off"
    owner,  \* for whom a sleep is under way: "nobody", "vim", "watch"
    slept   \* it has slept since the sleep began

promiseVars == <<chip, owner, slept>>

Init == chip = "awake" /\ owner = "nobody" /\ slept = FALSE

Begin(who) ==
    /\ chip = "awake" /\ owner = "nobody"
    /\ owner' = who /\ UNCHANGED <<chip, slept>>

Doze == chip = "awake" /\ owner # "nobody" /\ chip' = "light" /\ UNCHANGED <<owner, slept>>

Wake == chip = "light" /\ chip' = "awake" /\ slept' = TRUE /\ UNCHANGED owner

End ==
    /\ chip = "awake" /\ owner # "nobody" /\ slept
    /\ owner' = "nobody" /\ slept' = FALSE /\ UNCHANGED chip

Stop == chip = "awake" /\ owner # "nobody" /\ chip' = "off" /\ UNCHANGED <<owner, slept>>

Boot == chip = "off" /\ chip' = "awake" /\ owner' = "nobody" /\ slept' = FALSE

Next == (\E who \in {"vim", "watch"} : Begin(who)) \/ Doze \/ Wake \/ End \/ Stop \/ Boot

Spec == Init /\ [][Next]_promiseVars
=============================================================================
