------------------------ MODULE MCMissRateController ------------------------
(***************************************************************************)
(* Rates and windows for checking MissRateController with TLC.  A ring     *)
(* that was allocated at "r4" still serves "r5", and one of "r5" serves    *)
(* "r7"; in the other direction the ring is too large and is replaced.     *)
(***************************************************************************)
EXTENDS MissRateController

Rates == {"r4", "r5", "r7"}
Interval == [r \in Rates |-> CASE r = "r4" -> 5 [] r = "r5" -> 4 [] OTHER -> 3]
Step == [r \in Rates |-> IF r = "r4" THEN 2 ELSE 1]
Window == [r \in Rates |-> CASE r = "r4" -> 4 [] r = "r5" -> 5 [] OTHER -> 7]

=============================================================================
