----------------------------- MODULE Settlement -----------------------------
(***************************************************************************)
(* What an operation handle promises, without the handle: an operation is  *)
(* created at most once and settles at most once, and a caller that waits  *)
(* for it is told a settlement only when it is the operation's own.        *)
(* Any error it is told instead leaves the outcome open.                   *)
(***************************************************************************)
CONSTANT Callers

VARIABLES
    op,        \* none, pending, completed or failed
    verdict    \* what each caller has been told, none at first

Init ==
    /\ op = "none"
    /\ verdict = [c \in Callers |-> "none"]

Create ==
    /\ op = "none"
    /\ op' \in {"pending", "completed", "failed"}
    /\ UNCHANGED verdict

Settle ==
    /\ op = "pending"
    /\ op' \in {"completed", "failed"}
    /\ UNCHANGED verdict

Tell(c) ==
    /\ verdict[c] = "none"
    /\ \E v \in {"open"} \cup ({op} \cap {"completed", "failed"}) :
          verdict' = [verdict EXCEPT ![c] = v]
    /\ UNCHANGED op

Next == Create \/ Settle \/ \E c \in Callers : Tell(c)

Spec == Init /\ [][Next]_<<op, verdict>>
=============================================================================
