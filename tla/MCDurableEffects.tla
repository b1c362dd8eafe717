--------------------------- MODULE MCDurableEffects ---------------------------
(* DurableEffects on small instances: two or three kernel processes that   *)
(* race for one request under a lease of one or two ticks.                 *)
EXTENDS DurableEffects

===============================================================================
