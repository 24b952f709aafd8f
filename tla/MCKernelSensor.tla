--------------------------- MODULE MCKernelSensor ---------------------------
(***************************************************************************)
(* KernelSensor for TLC: a process with a second thread, and another one.  *)
(***************************************************************************)
EXTENDS KernelSensor

MCLeaderOf == [ t \in Threads |-> IF t = "p2" THEN "p2" ELSE "p1" ]
MCStartTime == [ t \in Threads |-> CASE t = "p1" -> 1 [] t = "p2" -> 2 [] OTHER -> 3 ]
=============================================================================
