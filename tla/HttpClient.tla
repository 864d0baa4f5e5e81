----------------------------- MODULE HttpClient -----------------------------
(***************************************************************************)
(* The HTTP client's credential and its retries: executeWithAuthRetry,     *)
(* runStepUpRetry and requestWithRetry (client.go), with the single-flight *)
(* token refresh, its timer and Dispose (arca.go).                         *)
(*                                                                         *)
(* Requests run on goroutines of their own and share one credential. Each  *)
(* read or write of it, of the refresh state and of the step-up flag is a  *)
(* critical section, and an action. Tokens are numbered in the order they  *)
(* were minted; the step-up token a handler obtained for request r is      *)
(* named r. A refresh for a 403 also calls WebSocketManager's Reconnect,   *)
(* which touches nothing here.                                             *)
(***************************************************************************)
EXTENDS Naturals, FiniteSets

CONSTANTS
    Reads,        \* requests that may be retried (GET, HEAD)
    Mutations,    \* requests that may not
    StepUps,      \* the requests the server may want a step-up token for
    Timer,        \* the goroutine of the proactive refresh
    None,         \* no leader
    MaxRetries,   \* maxRetries
    MaxTokens,    \* bound: tokens minted
    MaxExpiries,  \* bound: how often the tokens minted so far expire
    MaxFaults,    \* bound: failures of network, server and provider
    MaxUpdates    \* bound: calls of UpdateToken

Requests == Reads \cup Mutations
Actors == Requests \cup {Timer}

ASSUME ConstantsOK ==
    /\ Reads \cap Mutations = {}
    /\ StepUps \subseteq Requests
    /\ Timer \notin Requests
    /\ None \notin Actors
    /\ Actors \cap Nat = {}
    /\ MaxRetries \in Nat /\ MaxTokens \in Nat \ {0}
    /\ MaxExpiries \in Nat /\ MaxFaults \in Nat /\ MaxUpdates \in Nat

VARIABLES
    credential,    \* c.credential
    inFlight,      \* c.stepUpInFlight
    leader,        \* a.refreshDone, named by the goroutine that made it
    result,        \* a.refreshResult
    timer,         \* a.refreshTimer is armed
    disposed,      \* Dispose was called
    pc,            \* where each goroutine is
    phase,         \* which of its requestWithRetry calls a request is in
    attempt,       \* the attempt of that call
    bearer,        \* the credential its last attempt was sent with
    tok,           \* the token a refresh returned to it; 0 for an error
    original,      \* the credential runStepUpRetry restores
    minted,        \* the last token minted
    expired,       \* tokens up to this one are rejected
    spent,         \* the step-up tokens that were used
    executed,      \* how often the server carried each request out
    bounds         \* the faults, expiries and updates so far

shared == <<credential, inFlight>>
refresh == <<leader, result, timer, disposed>>
local == <<pc, phase, attempt, bearer, tok, original>>
server == <<minted, expired, spent, executed>>
vars == <<shared, refresh, local, server, bounds>>

Credentials == Nat \cup Requests

SendPCs == {"send", "wire", "transient", "rejected", "challenged"}
RefreshPCs == {"refresh", "provider", "wait", "wake", "apply", "schedule", "refreshed"}
StepPCs == {"claim", "handler", "swap", "install", "restore", "clear"}
PCs == {"idle", "done"} \cup SendPCs \cup RefreshPCs \cup StepPCs

(* One type invariant for the module. *)
TypeOK ==
    /\ credential \in Credentials
    /\ inFlight \in BOOLEAN
    /\ leader \in Actors \cup {None}
    /\ result \in Nat
    /\ timer \in BOOLEAN /\ disposed \in BOOLEAN
    /\ pc \in [Actors -> PCs]
    /\ phase \in [Requests -> {"first", "auth", "step"}]
    /\ attempt \in [Requests -> 0..MaxRetries]
    /\ bearer \in [Requests -> Credentials]
    /\ tok \in [Actors -> Nat]
    /\ original \in [Requests -> Credentials]
    /\ minted \in Nat /\ expired \in Nat
    /\ spent \in SUBSET Requests
    /\ executed \in [Requests -> Nat]
    /\ bounds \in [faults : Nat, expiries : Nat, updates : Nat]

(* A client made with a token and a token provider: the refresh timer runs. *)
(* b is what is used up of the bounds.                                      *)
InitAt(b) ==
    /\ credential = 1 /\ inFlight = FALSE
    /\ leader = None /\ result = 0 /\ timer = TRUE /\ disposed = FALSE
    /\ pc = [a \in Actors |-> "idle"]
    /\ phase = [r \in Requests |-> "first"]
    /\ attempt = [r \in Requests |-> 0]
    /\ bearer = [r \in Requests |-> 0]
    /\ tok = [a \in Actors |-> 0]
    /\ original = [r \in Requests |-> 0]
    /\ minted = 1 /\ expired = 0 /\ spent = {}
    /\ executed = [r \in Requests |-> 0]
    /\ bounds = b

Init == InitAt([faults |-> 0, expiries |-> 0, updates |-> 0])

Goto(a, label) == pc' = [pc EXCEPT ![a] = label]

Count(what, max) ==
    /\ bounds[what] < max
    /\ bounds' = [bounds EXCEPT ![what] = @ + 1]

Fault == Count("faults", MaxFaults)

-----------------------------------------------------------------------------
(* requestOnce and requestWithRetry.                                       *)

(* One call per request: executeWithAuthRetry begins. *)
Start(r) ==
    /\ pc[r] = "idle"
    /\ Goto(r, "send")
    /\ UNCHANGED <<shared, refresh, phase, attempt, bearer, tok, original, server, bounds>>

(* The bearer is read just before the request goes out. *)
Send(r) ==
    /\ pc[r] = "send"
    /\ bearer' = [bearer EXCEPT ![r] = credential]
    /\ Goto(r, "wire")
    /\ UNCHANGED <<shared, refresh, phase, attempt, tok, original, server, bounds>>

(* The server takes a token until it expires, and a step-up token once, for *)
(* the request it was approved for.                                        *)
Good(r) ==
    IF bearer[r] \in Requests THEN bearer[r] = r /\ r \notin spent
                              ELSE bearer[r] > expired

(* Whether it asks is the server's to say, each time. *)
NeedsStepUp(r) == r \in StepUps /\ bearer[r] \notin Requests

(* The request is carried out. *)
Execute(r) ==
    /\ Good(r)
    /\ executed' = [executed EXCEPT ![r] = @ + 1]
    /\ spent' = IF bearer[r] = r THEN spent \cup {r} ELSE spent
    /\ UNCHANGED <<minted, expired>>

(* requestWithRetry returns r's outcome to its caller. *)
Return(r) == Goto(r, IF phase[r] = "step" THEN "restore" ELSE "done")

Succeed(r) ==
    /\ pc[r] = "wire"
    /\ Execute(r)
    /\ Return(r)
    /\ UNCHANGED <<shared, refresh, phase, attempt, bearer, tok, original, bounds>>

(* The answer is lost, or a gateway gives it: 502, 503, 504. *)
LoseReply(r) ==
    /\ pc[r] = "wire"
    /\ Fault
    /\ Execute(r)
    /\ Goto(r, "transient")
    /\ UNCHANGED <<shared, refresh, phase, attempt, bearer, tok, original>>

(* The request never gets there. *)
LoseRequest(r) ==
    /\ pc[r] = "wire"
    /\ Fault
    /\ Goto(r, "transient")
    /\ UNCHANGED <<shared, refresh, phase, attempt, bearer, tok, original, server>>

(* 401, or 403 for a token of another identity. *)
Reject(r) ==
    /\ pc[r] = "wire"
    /\ \/ ~Good(r) /\ UNCHANGED bounds
       \/ Good(r) /\ phase[r] = "first" /\ Fault
    /\ Goto(r, "rejected")
    /\ UNCHANGED <<shared, refresh, phase, attempt, bearer, tok, original, server>>

(* 412 STEP_UP_REQUIRED. *)
Challenge(r) ==
    /\ pc[r] = "wire"
    /\ Good(r) /\ NeedsStepUp(r)
    /\ Goto(r, "challenged")
    /\ UNCHANGED <<shared, refresh, phase, attempt, bearer, tok, original, server, bounds>>

(* Mutant of Retryable: whatever failed in transit is sent again. *)
MutRetryable(r) == attempt[r] < MaxRetries

(* Only reads may retry. *)
Retryable(r) == r \in Reads /\ attempt[r] < MaxRetries

Transient(r) ==
    /\ pc[r] = "transient"
    /\ \/ /\ Retryable(r)
          /\ attempt' = [attempt EXCEPT ![r] = @ + 1]
          /\ Goto(r, "send")
       \/ /\ ~Retryable(r)
          /\ Return(r)
          /\ UNCHANGED attempt
    /\ UNCHANGED <<shared, refresh, phase, bearer, tok, original, server, bounds>>

(* requestWithRetry gives up: ctx is done during the backoff. *)
Cancelled(r) ==
    /\ pc[r] = "transient"
    /\ Retryable(r)
    /\ Return(r)
    /\ UNCHANGED <<shared, refresh, phase, attempt, bearer, tok, original, server, bounds>>

-----------------------------------------------------------------------------
(* executeWithAuthRetry: the refresh, once.                                *)

(* A first rejection asks the provider; a second is reported to            *)
(* OnAuthError and returned.                                               *)
Rejected(r) ==
    /\ pc[r] = "rejected"
    /\ IF phase[r] = "first" THEN Goto(r, "refresh") ELSE Return(r)
    /\ UNCHANGED <<shared, refresh, phase, attempt, bearer, tok, original, server, bounds>>

(* refreshTokenFromProvider: the first caller leads, the others wait. *)
Refresh(a) ==
    /\ pc[a] = "refresh"
    /\ IF leader = None
       THEN leader' = a /\ Goto(a, "provider")
       ELSE UNCHANGED leader /\ Goto(a, "wait")
    /\ UNCHANGED <<shared, result, timer, disposed, phase, attempt, bearer, tok, original,
                   server, bounds>>

(* The provider's answer t (0 for an error) is published: a closed channel *)
(* wakes the waiters.                                                      *)
Publish(a, t, label) ==
    /\ pc[a] = "provider"
    /\ result' = t
    /\ tok' = [tok EXCEPT ![a] = t]
    /\ leader' = None
    /\ pc' = [b \in Actors |-> IF b = a THEN label
                               ELSE IF pc[b] = "wait" THEN "wake" ELSE pc[b]]

ProviderMints(a) ==
    /\ minted < MaxTokens
    /\ minted' = minted + 1
    /\ Publish(a, minted + 1, "apply")
    /\ UNCHANGED <<shared, timer, disposed, phase, attempt, bearer, original, expired, spent,
                   executed, bounds>>

(* Mutant of ProviderFails: an error is not published, nobody is woken. *)
MutProviderFails(a) ==
    /\ pc[a] = "provider"
    /\ Fault \/ (minted = MaxTokens /\ UNCHANGED bounds)
    /\ tok' = [tok EXCEPT ![a] = 0]
    /\ leader' = None
    /\ Goto(a, "refreshed")
    /\ UNCHANGED <<shared, result, timer, disposed, phase, attempt, bearer, original, server>>

(* Past the bound on tokens the provider only fails. *)
ProviderFails(a) ==
    /\ Fault \/ (minted = MaxTokens /\ UNCHANGED bounds)
    /\ Publish(a, 0, "refreshed")
    /\ UNCHANGED <<shared, timer, disposed, phase, attempt, bearer, original, server>>

(* A waiter reads the result there is when it runs. *)
Wake(a) ==
    /\ pc[a] = "wake"
    /\ tok' = [tok EXCEPT ![a] = result]
    /\ Goto(a, "refreshed")
    /\ UNCHANGED <<shared, refresh, phase, attempt, bearer, original, server, bounds>>

(* applyNewToken, by the leader: the credential... *)
Apply(a) ==
    /\ pc[a] = "apply"
    /\ credential' = tok[a]
    /\ Goto(a, "schedule")
    /\ UNCHANGED <<inFlight, refresh, phase, attempt, bearer, tok, original, server, bounds>>

(* ...and then scheduleProactiveRefresh. *)
Schedule(a) ==
    /\ pc[a] = "schedule"
    /\ timer' = TRUE
    /\ Goto(a, "refreshed")
    /\ UNCHANGED <<shared, leader, result, disposed, phase, attempt, bearer, tok, original,
                   server, bounds>>

(* Mutant of AuthRetry: the refreshed token is not put in place by a waiter. *)
MutAuthRetry(r) ==
    /\ phase' = [phase EXCEPT ![r] = "auth"]
    /\ attempt' = [attempt EXCEPT ![r] = 0]
    /\ Goto(r, "send")
    /\ UNCHANGED credential

(* Mutant of AuthRetry: the retry counts as one more attempt of the call. *)
MutAuthRetryCounts(r) ==
    /\ credential' = tok[r]
    /\ phase' = [phase EXCEPT ![r] = "auth"]
    /\ attempt' = [attempt EXCEPT ![r] = @ + 1]
    /\ Goto(r, "send")

(* updateCredential(newCred), and the request again. *)
AuthRetry(r) ==
    /\ credential' = tok[r]
    /\ phase' = [phase EXCEPT ![r] = "auth"]
    /\ attempt' = [attempt EXCEPT ![r] = 0]
    /\ Goto(r, "send")

Refreshed(r) ==
    /\ pc[r] = "refreshed"
    /\ \/ tok[r] # 0 /\ AuthRetry(r)
       \/ tok[r] = 0 /\ Goto(r, "done") /\ UNCHANGED <<credential, phase, attempt>>
    /\ UNCHANGED <<inFlight, refresh, bearer, tok, original, server, bounds>>

-----------------------------------------------------------------------------
(* runStepUpRetry.                                                         *)

(* The flag is read here and set later. *)
Challenged(r) ==
    /\ pc[r] = "challenged"
    /\ IF phase[r] = "first" /\ ~inFlight THEN Goto(r, "claim") ELSE Return(r)
    /\ UNCHANGED <<shared, refresh, phase, attempt, bearer, tok, original, server, bounds>>

Claim(r) ==
    /\ pc[r] = "claim"
    /\ inFlight' = TRUE
    /\ Goto(r, "handler")
    /\ UNCHANGED <<credential, refresh, phase, attempt, bearer, tok, original, server, bounds>>

(* The handler obtains a token, or the user declines. *)
Handler(r) ==
    /\ pc[r] = "handler"
    /\ \/ Goto(r, "swap")
       \/ Goto(r, "clear")
    /\ UNCHANGED <<shared, refresh, phase, attempt, bearer, tok, original, server, bounds>>

(* original := c.getCredential()... *)
Swap(r) ==
    /\ pc[r] = "swap"
    /\ original' = [original EXCEPT ![r] = credential]
    /\ Goto(r, "install")
    /\ UNCHANGED <<shared, refresh, phase, attempt, bearer, tok, server, bounds>>

(* ...c.updateCredential(token), and the request again. *)
Install(r) ==
    /\ pc[r] = "install"
    /\ credential' = r
    /\ phase' = [phase EXCEPT ![r] = "step"]
    /\ attempt' = [attempt EXCEPT ![r] = 0]
    /\ Goto(r, "send")
    /\ UNCHANGED <<inFlight, refresh, bearer, tok, original, server, bounds>>

(* Mutant of Restored: the step-up token stays when the retry fails. *)
MutRestored(r) == IF r \in spent THEN original[r] ELSE credential

(* What the deferred updateCredential puts back. *)
Restored(r) == original[r]

Restore(r) ==
    /\ pc[r] = "restore"
    /\ credential' = Restored(r)
    /\ Goto(r, "clear")
    /\ UNCHANGED <<inFlight, refresh, phase, attempt, bearer, tok, original, server, bounds>>

Clear(r) ==
    /\ pc[r] = "clear"
    /\ inFlight' = FALSE
    /\ Goto(r, "done")
    /\ UNCHANGED <<credential, refresh, phase, attempt, bearer, tok, original, server, bounds>>

-----------------------------------------------------------------------------
(* The timer, UpdateToken and Dispose.                                     *)

TimerFires ==
    /\ timer
    /\ pc[Timer] = "idle"
    /\ timer' = FALSE
    /\ Goto(Timer, "refresh")
    /\ UNCHANGED <<shared, leader, result, disposed, phase, attempt, bearer, tok, original,
                   server, bounds>>

TimerDone ==
    /\ pc[Timer] = "refreshed"
    /\ Goto(Timer, "idle")
    /\ UNCHANGED <<shared, refresh, phase, attempt, bearer, tok, original, server, bounds>>

(* A caller brings a token of its own. *)
UpdateToken ==
    /\ ~disposed
    /\ minted < MaxTokens
    /\ Count("updates", MaxUpdates)
    /\ minted' = minted + 1
    /\ credential' = minted + 1
    /\ timer' = TRUE
    /\ UNCHANGED <<inFlight, leader, result, disposed, local, expired, spent, executed>>

(* Dispose stops the timer there is. *)
Dispose ==
    /\ ~disposed
    /\ disposed' = TRUE
    /\ timer' = FALSE
    /\ UNCHANGED <<shared, leader, result, local, server, bounds>>

(* The tokens minted so far expire. A token outlives the refreshes under   *)
(* way when it was minted.                                                 *)
Expire ==
    /\ \A a \in Actors : pc[a] \notin RefreshPCs
    /\ Count("expiries", MaxExpiries)
    /\ expired < minted
    /\ expired' = minted
    /\ UNCHANGED <<shared, refresh, local, minted, spent, executed>>

-----------------------------------------------------------------------------
SendStep(r) ==
    \/ Send(r) \/ Succeed(r) \/ LoseReply(r) \/ LoseRequest(r) \/ Reject(r) \/ Challenge(r)
    \/ Transient(r) \/ Cancelled(r) \/ Rejected(r) \/ Refreshed(r)

RefreshStep(a) ==
    \/ Refresh(a) \/ ProviderMints(a) \/ ProviderFails(a) \/ Wake(a) \/ Apply(a) \/ Schedule(a)

StepUpStep(r) ==
    \/ Challenged(r) \/ Claim(r) \/ Handler(r) \/ Swap(r) \/ Install(r) \/ Restore(r) \/ Clear(r)

Next ==
    \/ \E r \in Requests : Start(r) \/ SendStep(r) \/ StepUpStep(r)
    \/ \E a \in Actors : RefreshStep(a)
    \/ TimerFires
    \/ TimerDone
    \/ UpdateToken
    \/ Dispose
    \/ Expire

Spec == Init /\ [][Next]_vars

(* A goroutine goes on; the server and the provider answer. *)
Fairness ==
    /\ \A r \in Requests : WF_vars(SendStep(r) \/ StepUpStep(r) \/ RefreshStep(r))
    /\ WF_vars(RefreshStep(Timer))

LiveSpec == Spec /\ Fairness

-----------------------------------------------------------------------------
(* Correctness.                                                            *)

(* "Only reads may retry; mutations can already have reached the venue":   *)
(* through lost answers, refreshes and step-ups the server never carries a *)
(* mutation out twice.                                                     *)
MutationOnce == \A r \in Mutations : executed[r] <= 1

(* executeWithAuthRetry reports an auth error after the refresh because    *)
(* "the provider's freshest credential was also rejected": it does not     *)
(* while the token that refresh returned is good. From the first step-up   *)
(* retry on it may, because that restores an older credential over it.     *)
AuthErrorHonest ==
    \/ \E q \in Requests : phase[q] = "step"
    \/ \A r \in Requests : pc[r] = "rejected" /\ phase[r] = "auth" => tok[r] <= expired

(* StepUpHandler: "the original credential is restored afterward and the   *)
(* step-up token is never persisted": it stands only while a step-up retry *)
(* is under way. Two retries that overlap may break that: stepUpInFlight   *)
(* is tested before it is set, and the second may save the first one's     *)
(* token for the original, which it then restores.                         *)
Overlapped == \E q \in Requests : original[q] \in Requests

StepUpRestored ==
    credential \in Requests =>
        \/ \E r \in Requests : pc[r] \notin {"idle", "done"} /\ phase[r] = "step"
        \/ Overlapped

(* The requests that began are all answered, and none begins twice: nobody *)
(* waits for a refresh forever.                                            *)
Pending == {r \in Requests : pc[r] \notin {"idle", "done"}}
Answered == Pending # {} ~> Pending = {}

(* What runStepUpRetry promises of the credential, and the types.          *)
ClientSound == TypeOK /\ StepUpRestored
=============================================================================
