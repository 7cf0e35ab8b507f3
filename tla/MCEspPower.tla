----------------------------- MODULE MCEspPower -----------------------------
(* EspPower for TLC: a board with all a board can have, one with a button   *)
(* that cannot end a deep sleep, and one that only a timer wakes.           *)
EXTENDS EspPower

Full == [key |-> TRUE, rtc |-> TRUE, bat |-> TRUE]
Bare == [key |-> FALSE, rtc |-> FALSE, bat |-> FALSE]

MCBoards == {Full, Bare, [Bare EXCEPT !.key = TRUE]}
=============================================================================
