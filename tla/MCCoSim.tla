------------------------------- MODULE MCCoSim -------------------------------
(***************************************************************************)
(* Small instances of CoSim for TLC.                                       *)
(***************************************************************************)
EXTENDS CoSim

NobodyQuits == {}
AnyQuits    == {"main", "gui"}

OneEach     == [b \in Boards |-> 1]
MainOnce    == [b \in Boards |-> IF b = "main" THEN 1 ELSE 0]
MainTwice   == [b \in Boards |-> IF b = "main" THEN 2 ELSE 0]
=============================================================================
