------------------------- MODULE MCWebSocketManager -------------------------
(* TLC instances of WebSocketManager. *)
EXTENDS WebSocketManager, Integers, TLC

(* Goroutines and sockets are interchangeable. *)
Symmetry == Permutations(Loops) \cup Permutations(Conns)

(* For liveness, where TLC cannot use that, goroutines and sockets are     *)
(* numbers, and a new one is the least that nothing refers to any more.    *)
LeastFirst ==
    /\ \A c \in open' \ open : \A d \in Conns : Fresh(d) => c <= d
    /\ \A p \in Loops : pc[p] = "idle" /\ pc'[p] # "idle" =>
            \A q \in Loops : Free(q) => p <= q

InOrderSpec == Init /\ [][Next /\ LeastFirst]_vars /\ Fairness
===========================================================================
