----------------------------- MODULE MCEspFiles -----------------------------
(* EspFiles for TLC: two volumes with two names each, and a directory that  *)
(* is moved from one to the other.                                          *)
EXTENDS EspFiles, TLC

CONSTANTS vim, web, fatA, fatB, sdA, sdB, fatAA

MCCalls == vim :> {"copy", "get"} @@ web :> {"upload", "move", "delete"}
MCCaller == vim :> {"copy", "move", "delete"}

MCEntry == [n \in Paths |-> IF n = fatAA THEN fatA ELSE n]
MCVolume == [e \in {fatA, fatB, sdA, sdB} |-> IF e \in {fatA, fatB} THEN "fat" ELSE "sd"]

MCTrees == {{<<fatA, sdA>>, <<fatB, sdB>>}, {<<fatA, fatB>>}, {<<sdA, fatA>>}}
MCSpelled == {{<<fatA, fatAA>>}, {<<fatA, sdA>>}, {<<fatA, fatB>>}, {<<sdA, fatAA>>},
              {<<fatA, fatAA>>, <<fatB, fatB>>}}

MCFirsts == {[e \in Entries |-> CASE e = fatA -> c [] e = fatB -> d [] OTHER -> None] :
                c \in Data, d \in Data} \ {[e \in Entries |->
                IF e \in {fatA, fatB} THEN c ELSE None] : c \in Data}

MCSymmetry == Permutations(Data)
=============================================================================
