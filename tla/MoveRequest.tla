----------------------------- MODULE MoveRequest -----------------------------
(***************************************************************************)
(* A funding move under a request key: CreateFundingV9Move, which admits   *)
(* it, RetireFundingV9Move, which fences the key for good, and             *)
(* ResolveFundingV9Move, which only reads. A request may be delivered long *)
(* after its caller gave it up. The caller follows the protocol documented *)
(* at ResolveFundingV9Move: it sends the same request again or resolves    *)
(* it, retires it once the quote expired, and asks for the money under     *)
(* another key only when the first one can never be admitted.              *)
(***************************************************************************)
EXTENDS Naturals

CONSTANTS
    Keys,           \* the request keys, 1..n, in the order they are used
    MaxSends,       \* bound: creates sent for a key
    MaxBad,         \* bound: replies lost or not about the request
    NoReply

Calls == {"none", "create", "retire", "resolve"}
Verdicts == {"none", "accepted", "retired", "absent"}

VARIABLES
    ledger,         \* server: [Keys -> {"absent", "admitted", "retired"}]
    expired,        \* server: [Keys -> BOOLEAN], the quote of the key is over
    net,            \* creates on their way: [Keys -> 0..MaxSends]
    sends,          \* creates sent
    key,            \* the key the caller uses
    call,           \* the call it is in
    mreply,         \* the reply to it, or NoReply
    known,          \* [Keys -> Verdicts]: what the caller was told
    bad

vars == <<ledger, expired, net, sends, key, call, mreply, known, bad>>

Init ==
    /\ ledger = [k \in Keys |-> "absent"] /\ expired = [k \in Keys |-> FALSE]
    /\ net = [k \in Keys |-> 0] /\ sends = [k \in Keys |-> 0]
    /\ key = 1 /\ call = "none" /\ mreply = NoReply
    /\ known = [k \in Keys |-> "none"] /\ bad = 0

-----------------------------------------------------------------------------
(* What a well-formed reply about k says. The operation id of a key is     *)
(* fixed by the key, so that of a reply stands for it too.                 *)
Says(k) == [status |-> IF ledger[k] = "admitted" THEN "accepted" ELSE ledger[k],
            requestID |-> k, admission |-> ledger[k] = "admitted"]

(* The server takes a create: the admission it already has before any      *)
(* gate, a refusal for a fenced key or an expired quote, or the admission. *)
Admit(k) ==
    /\ net[k] > 0
    /\ net' = [net EXCEPT ![k] = @ - 1]
    /\ ledger' = IF ledger[k] = "absent" /\ ~expired[k] THEN [ledger EXCEPT ![k] = "admitted"]
                 ELSE ledger
    /\ mreply' = IF call = "create" /\ key = k /\ mreply = NoReply
                    THEN IF ledger'[k] = "admitted" THEN [status |-> "accepted"] ELSE [status |-> "refused"]
                    ELSE mreply
    /\ UNCHANGED <<expired, sends, key, call, known, bad>>

(* The server fences a key whose quote expired, unless admission won. *)
Fence ==
    /\ call = "retire" /\ mreply = NoReply
    /\ IF ledger[key] = "absent" /\ ~expired[key]
          THEN mreply' = [status |-> "refused"] /\ UNCHANGED ledger
          ELSE /\ ledger' = IF ledger[key] = "absent" THEN [ledger EXCEPT ![key] = "retired"] ELSE ledger
               /\ mreply' = [status |-> IF ledger'[key] = "admitted" THEN "accepted" ELSE "retired",
                             requestID |-> key, admission |-> ledger'[key] = "admitted"]
    /\ UNCHANGED <<expired, net, sends, key, call, known, bad>>

Lookup ==
    /\ call = "resolve" /\ mreply = NoReply
    /\ mreply' = Says(key)
    /\ UNCHANGED <<ledger, expired, net, sends, key, call, known, bad>>

Expire(k) ==
    /\ ~expired[k] /\ expired' = [expired EXCEPT ![k] = TRUE]
    /\ UNCHANGED <<ledger, net, sends, key, call, mreply, known, bad>>

(* A reply that is not about the request, or lacks its evidence. *)
Garbled ==
    {[status |-> s, requestID |-> k, admission |-> s = "accepted"] :
        s \in {"accepted", "retired", "absent"}, k \in Keys \ {key}}
    \cup {[status |-> "accepted", requestID |-> key, admission |-> FALSE],
          [status |-> "retired", requestID |-> key, admission |-> TRUE]}

Garble ==
    /\ call \in {"retire", "resolve"} /\ mreply = NoReply /\ bad < MaxBad
    /\ mreply' \in Garbled /\ bad' = bad + 1
    /\ UNCHANGED <<ledger, expired, net, sends, key, call, known>>

(* The connection fails or the caller's context ends: a create may still   *)
(* be on its way.                                                          *)
GivesUp ==
    /\ call # "none" /\ bad < MaxBad
    /\ call' = "none" /\ mreply' = NoReply /\ bad' = bad + 1
    /\ UNCHANGED <<ledger, expired, net, sends, key, known>>

-----------------------------------------------------------------------------
Told(k, v) == known' = [known EXCEPT ![k] = v]
Settled(k) == known[k] \in {"accepted", "retired"}

CreateFundingV9Move ==
    /\ call = "none" /\ ~Settled(key) /\ sends[key] < MaxSends
    /\ call' = "create" /\ mreply' = NoReply
    /\ net' = [net EXCEPT ![key] = @ + 1] /\ sends' = [sends EXCEPT ![key] = @ + 1]
    /\ UNCHANGED <<ledger, expired, key, known, bad>>

Created ==
    /\ call = "create" /\ mreply # NoReply
    /\ call' = "none" /\ mreply' = NoReply
    /\ IF mreply.status = "accepted" THEN Told(key, "accepted") ELSE UNCHANGED known
    /\ UNCHANGED <<ledger, expired, net, sends, key, bad>>

(* The caller retires a key that was absent after its quote expired. *)
RetireFundingV9Move ==
    /\ call = "none" /\ ~Settled(key) /\ expired[key] /\ sends[key] > 0
    /\ call' = "retire" /\ mreply' = NoReply
    /\ UNCHANGED <<ledger, expired, net, sends, key, known, bad>>

(* Retired only for an explicit fence of this request, accepted only with  *)
(* its admission; anything else is an error that says nothing.             *)
MutRetirement(r) == IF r.status = "refused" THEN "none" ELSE r.status

MutFenceOnly(r) == IF r.status = "retired" /\ r.requestID = key /\ ~r.admission THEN "retired" ELSE "none"

Retirement(r) ==
    IF r.status = "refused" THEN "none"
    ELSE IF r.status # "refused" /\ r.requestID # key THEN "none"
    ELSE IF r.status = "retired" /\ ~r.admission THEN "retired"
    ELSE IF r.status = "accepted" /\ r.admission THEN "accepted"
    ELSE "none"

Retired ==
    /\ call = "retire" /\ mreply # NoReply
    /\ call' = "none" /\ mreply' = NoReply
    /\ IF Retirement(mreply) # "none" THEN Told(key, Retirement(mreply)) ELSE UNCHANGED known
    /\ UNCHANGED <<ledger, expired, net, sends, key, bad>>

ResolveFundingV9Move ==
    /\ call = "none" /\ ~Settled(key) /\ sends[key] > 0
    /\ call' = "resolve" /\ mreply' = NoReply
    /\ UNCHANGED <<ledger, expired, net, sends, key, known, bad>>

(* Resolution admits and fences nothing; absent is its own status, and is  *)
(* not a fence.                                                            *)
MutResolution(r) == IF r.status = "absent" THEN "retired" ELSE r.status

Resolution(r) ==
    IF r.requestID # key THEN "none"
    ELSE IF r.status = "accepted" /\ r.admission THEN "accepted"
    ELSE IF r.status \in {"retired", "absent"} /\ ~r.admission THEN r.status
    ELSE "none"

Resolved ==
    /\ call = "resolve" /\ mreply # NoReply
    /\ call' = "none" /\ mreply' = NoReply
    /\ IF Resolution(mreply) # "none" THEN Told(key, Resolution(mreply)) ELSE UNCHANGED known
    /\ UNCHANGED <<ledger, expired, net, sends, key, bad>>

(* The key can never be admitted: the caller reviews a new quote, and asks *)
(* under a new key.                                                        *)
AskAgain ==
    /\ call = "none" /\ known[key] = "retired" /\ key + 1 \in Keys
    /\ key' = key + 1
    /\ UNCHANGED <<ledger, expired, net, sends, call, mreply, known, bad>>

Client == Created \/ RetireFundingV9Move \/ Retired \/ Resolved
Server == Fence \/ Lookup \/ \E k \in Keys : Admit(k) \/ Expire(k)

Next ==
    \/ \E k \in Keys : Admit(k) \/ Expire(k)
    \/ Fence \/ Lookup \/ Garble \/ GivesUp
    \/ CreateFundingV9Move \/ Created \/ RetireFundingV9Move \/ Retired
    \/ ResolveFundingV9Move \/ Resolved \/ AskAgain

Spec == Init /\ [][Next]_vars

-----------------------------------------------------------------------------
TypeOK ==
    /\ ledger \in [Keys -> {"absent", "admitted", "retired"}] /\ expired \in [Keys -> BOOLEAN]
    /\ net \in [Keys -> 0..MaxSends] /\ sends \in [Keys -> 0..MaxSends]
    /\ key \in Keys /\ call \in Calls /\ known \in [Keys -> Verdicts] /\ bad \in 0..MaxBad

(* RetireFundingV9Move, ResolveFundingV9Move: the caller who moves on only *)
(* when told that a key is retired never has its money moved twice, though *)
(* creates it gave up are still on their way.                              *)
MovedOnce == \A j, k \in Keys : ledger[j] = "admitted" /\ ledger[k] = "admitted" => j = k

(* What the caller was told of a key is what became of it, whatever reply  *)
(* came: accepted means admitted, retired means it never will be.          *)
ToldTruly ==
    \A k \in Keys :
       /\ known[k] = "accepted" => ledger[k] = "admitted"
       /\ known[k] = "retired" => ledger[k] = "retired"

(* Money asked for under one key after another moves once, and what the    *)
(* caller is told of a key is what became of it.                           *)
MoveSound == TypeOK /\ MovedOnce /\ ToldTruly
=============================================================================
