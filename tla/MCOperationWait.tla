--------------------------- MODULE MCOperationWait ---------------------------
(* One caller through every failure, or callers of Wait and WaitTimeout    *)
(* together with none.                                                     *)
EXTENDS OperationWait

CONSTANTS c1, c2

MCInit == InitWith({c1}, MaxFaults) \/ InitWith({c1, c2}, 0)

MCSpec == MCInit /\ [][Next]_vars /\ Fairness
=============================================================================
