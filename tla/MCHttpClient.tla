---------------------------- MODULE MCHttpClient ----------------------------
(* TLC instances of HttpClient: two requests that are stepped up, with a   *)
(* failure, or with tokens that expire and are replaced.                   *)
EXTENDS HttpClient

MCInit ==
    \/ InitAt([faults |-> 0, expiries |-> MaxExpiries, updates |-> MaxUpdates])
    \/ InitAt([faults |-> MaxFaults, expiries |-> 0, updates |-> 0])

MCSpec == MCInit /\ [][Next]_vars /\ Fairness
=============================================================================
