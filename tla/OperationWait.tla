---------------------------- MODULE OperationWait ----------------------------
(***************************************************************************)
(* Waiting for an operation: OperationHandle (operation.go) and            *)
(* waitForOperation (arca.go), for the callers of one handle.              *)
(*                                                                         *)
(* A wait listens to the socket and starts a worker. Whatever may have hid *)
(* an event (a gap, a new connection, a rotation, an event without its     *)
(* operation) calls recover, which advances revision and then nudges the   *)
(* worker through a channel of one place. The worker takes an              *)
(* acknowledgement of the subscription before it reads the operation, so   *)
(* that a settlement is in the answer or is pushed. The worker's read is   *)
(* served by the server in one step and returns in a later one.            *)
(*                                                                         *)
(* The socket is reduced to what the wait meets: whether it is up, whether *)
(* the server has the event types registered on it, and the one event that *)
(* tells of the settlement. good records that a worker's last round was    *)
(* acknowledged and answered, and crossed that the socket was replaced by  *)
(* one without the event types after the round's confirmation had returned *)
(* and before the worker loaded revision; no action reads them.            *)
(***************************************************************************)
EXTENDS Naturals, FiniteSets

CONSTANTS
    Callers,       \* calls that wait on the handle
    Cached,        \* the ones that call Wait; the others call WaitTimeout
    MaxFaults      \* bound: failures of the socket, the server or a request

ASSUME ConstantsOK ==
    /\ Cached \subseteq Callers
    /\ MaxFaults \in Nat

VARIABLES
    op,            \* the operation on the server
    sub,           \* the response of the submission, as h.resp has it
    settleDone,    \* h.settleDone
    stored,        \* h.settled: the outcome of the last Wait
    pc,            \* where each caller is
    verdict,       \* what it is told in the end; open is an error that settles nothing
    slot,          \* settled, and what went into resultCh or errCh
    requests,      \* the callers whose requests channel is full
    nudges,        \* calls of recover that have yet to nudge
    revision, completed, covered,
    wpc,           \* where each worker is
    attempt,       \* its attempt of the round
    acquired,      \* the workers that hold the event types
    ackOk,         \* its acknowledgement came
    answer,        \* what its read will return
    good, crossed,
    up,            \* the socket is authenticated
    registered,    \* the server has the event types on it
    wire,          \* the settlement's event: none, sent, or lost and not noticed
    faults         \* the failures still to come

handle == <<sub, settleDone, stored>>
recovery == <<requests, nudges, revision>>
worker == <<completed, covered, wpc, attempt, acquired, ackOk, answer, good, crossed>>
socket == <<up, registered, wire>>
vars == <<op, handle, pc, verdict, slot, recovery, worker, socket, faults>>

States == {"pending", "completed", "failed"}
Terminal == {"completed", "failed"}

(* One type invariant for the module. *)
TypeOK ==
    /\ op \in States \cup {"none"}
    /\ sub \in States \cup {"calling", "error"}
    /\ settleDone \in BOOLEAN
    /\ stored \in Terminal \cup {"none", "open"}
    /\ pc \in [Callers -> {"idle", "submit", "wait", "join", "store", "done"}]
    /\ verdict \in [Callers -> Terminal \cup {"none", "open"}]
    /\ slot \in [Callers -> Terminal \cup {"none"}]
    /\ requests \in SUBSET Callers
    /\ nudges \in [Callers -> Nat]
    /\ revision \in [Callers -> Nat]
    /\ completed \in [Callers -> Nat]
    /\ covered \in [Callers -> Nat]
    /\ wpc \in [Callers -> {"none", "idle", "ack", "confirmed", "read", "reply", "backoff", "gone"}]
    /\ attempt \in [Callers -> 0..2]
    /\ acquired \in SUBSET Callers
    /\ ackOk \in [Callers -> BOOLEAN]
    /\ answer \in [Callers -> States \cup {"none", "error"}]
    /\ good \in [Callers -> BOOLEAN] /\ crossed \in SUBSET Callers
    /\ up \in BOOLEAN /\ registered \in BOOLEAN
    /\ wire \in {"none", "sent", "lost"}
    /\ faults \in Nat

(* The callers of C wait on the handle, and there are up to f failures. *)
InitWith(C, f) ==
    /\ op = "none" /\ sub = "calling"
    /\ settleDone = FALSE /\ stored = "none"
    /\ pc = [c \in Callers |-> IF c \in C THEN "idle" ELSE "done"]
    /\ verdict = [c \in Callers |-> "none"]
    /\ slot = [c \in Callers |-> "none"]
    /\ requests = {}
    /\ nudges = [c \in Callers |-> 0] /\ revision = [c \in Callers |-> 0]
    /\ completed = [c \in Callers |-> 0] /\ covered = [c \in Callers |-> 0]
    /\ wpc = [c \in Callers |-> "none"] /\ attempt = [c \in Callers |-> 0]
    /\ acquired = {}
    /\ ackOk = [c \in Callers |-> FALSE] /\ answer = [c \in Callers |-> "none"]
    /\ good = [c \in Callers |-> FALSE] /\ crossed = {}
    /\ up = FALSE /\ registered = FALSE /\ wire = "none" /\ faults = f

Init == InitWith(Callers, MaxFaults)

(* One of the failures a behaviour may still have. *)
Fault == faults > 0 /\ faults' = faults - 1

-----------------------------------------------------------------------------
(* The submission, on the goroutine newOperationHandle starts.             *)

(* The request is answered with the operation as it was created. *)
Submitted ==
    /\ sub = "calling"
    /\ op' \in States
    /\ sub' = op'
    /\ UNCHANGED <<settleDone, stored, pc, verdict, slot, recovery, worker, socket, faults>>

(* The request fails, before or after the server created the operation. *)
SubmitFails ==
    /\ sub = "calling" /\ Fault
    /\ op' \in States \cup {"none"}
    /\ sub' = "error"
    /\ UNCHANGED <<settleDone, stored, pc, verdict, slot, recovery, worker, socket>>

-----------------------------------------------------------------------------
(* The callers.                                                            *)

(* Wait with a settlement in the cache, or else settle. *)
Wait(c) ==
    /\ pc[c] = "idle"
    /\ IF c \in Cached /\ settleDone
       THEN /\ verdict' = [verdict EXCEPT ![c] = stored]
            /\ pc' = [pc EXCEPT ![c] = "done"]
       ELSE /\ pc' = [pc EXCEPT ![c] = "submit"]
            /\ UNCHANGED verdict
    /\ UNCHANGED <<op, handle, slot, recovery, worker, socket, faults>>

(* The caller has its outcome; Wait has yet to store it. *)
Ends(c, v) ==
    /\ verdict' = [verdict EXCEPT ![c] = v]
    /\ pc' = [pc EXCEPT ![c] = "store"]

(* settle: the submission's own answer is enough unless it is pending. *)
SettledAtOnce(c) ==
    /\ pc[c] = "submit"
    /\ sub \in Terminal \cup {"error"}
    /\ Ends(c, IF sub = "error" THEN "open" ELSE sub)
    /\ UNCHANGED <<op, handle, slot, recovery, worker, socket, faults>>

(* The caller's context ends before the submission does. *)
CancelSubmitted(c) ==
    /\ pc[c] = "submit" /\ sub = "calling"
    /\ Ends(c, "open")
    /\ UNCHANGED <<op, handle, slot, recovery, worker, socket, faults>>

(* waitForOperation installs its listeners, calls recover and starts its   *)
(* worker.                                                                 *)
WaitForOperation(c) ==
    /\ pc[c] = "submit" /\ sub = "pending"
    /\ pc' = [pc EXCEPT ![c] = "wait"]
    /\ revision' = [revision EXCEPT ![c] = 1]
    /\ requests' = requests \cup {c}
    /\ wpc' = [wpc EXCEPT ![c] = "idle"]
    /\ UNCHANGED <<op, handle, verdict, slot, nudges, completed, covered, attempt, acquired, ackOk,
                   answer, good, crossed, socket, faults>>

(* The operation or its failure is in the channel. *)
TakeResult(c) ==
    /\ pc[c] = "wait" /\ slot[c] # "none"
    /\ verdict' = [verdict EXCEPT ![c] = slot[c]]
    /\ pc' = [pc EXCEPT ![c] = "join"]
    /\ UNCHANGED <<op, handle, slot, recovery, worker, socket, faults>>

(* The deadline, or the caller's context: the outcome stays open. *)
Deadline(c) ==
    /\ pc[c] = "wait"
    /\ verdict' = [verdict EXCEPT ![c] = "open"]
    /\ pc' = [pc EXCEPT ![c] = "join"]
    /\ UNCHANGED <<op, handle, slot, recovery, worker, socket, faults>>

(* Mutant of Joined: the wait returns without its worker. *)
MutJoined(c) == TRUE

(* The deferred function cancels the worker and waits for its end. *)
Joined(c) == wpc[c] = "gone"

(* The listeners go with the wait, and so do its channels. *)
Join(c) ==
    /\ pc[c] = "join" /\ Joined(c)
    /\ pc' = [pc EXCEPT ![c] = "store"]
    /\ slot' = [slot EXCEPT ![c] = "none"]
    /\ requests' = requests \ {c}
    /\ nudges' = [nudges EXCEPT ![c] = 0] /\ revision' = [revision EXCEPT ![c] = 0]
    /\ UNCHANGED <<op, handle, verdict, worker, socket, faults>>

(* Mutant of Caches: whatever Wait returned is kept. *)
MutCaches(c) == TRUE

(* A deadline or a failed read is not cached as a settlement. *)
Caches(c) == verdict[c] = "completed"

Store(c) ==
    /\ pc[c] = "store"
    /\ pc' = [pc EXCEPT ![c] = "done"]
    /\ IF c \in Cached
       THEN settleDone' = Caches(c) /\ stored' = verdict[c]
       ELSE UNCHANGED <<settleDone, stored>>
    /\ UNCHANGED <<op, sub, verdict, slot, recovery, worker, socket, faults>>

-----------------------------------------------------------------------------
(* recover, called for every wait that listens.                            *)

Listening == {c \in Callers : pc[c] \in {"wait", "join"}}

(* Mutant of Advanced: the worker is nudged, and finds nothing new. *)
MutAdvanced(C) == revision

Advanced(C) == [c \in Callers |-> IF c \in C THEN revision[c] + 1 ELSE revision[c]]

Recover(C) ==
    /\ revision' = Advanced(C)
    /\ nudges' = [c \in Callers |-> IF c \in C THEN nudges[c] + 1 ELSE nudges[c]]
    /\ UNCHANGED requests

(* The send into requests, which drops the token when one is there. *)
Nudge(c) ==
    /\ nudges[c] > 0
    /\ nudges' = [nudges EXCEPT ![c] = @ - 1]
    /\ requests' = requests \cup {c}
    /\ UNCHANGED <<op, handle, pc, verdict, slot, revision, worker, socket, faults>>

(* Mutant of TryResolve: a pending operation settles the wait, too. *)
MutTryResolve(C, state) ==
    [c \in Callers |-> IF c \in C /\ slot[c] = "none" THEN state ELSE slot[c]]

(* tryResolve: only a terminal state, and only the first, settles a wait. *)
TryResolve(C, state) ==
    [c \in Callers |-> IF c \in C /\ state \in Terminal /\ slot[c] = "none" THEN state ELSE slot[c]]

-----------------------------------------------------------------------------
(* The workers.                                                            *)

Over(c) == pc[c] # "wait" \/ slot[c] # "none"

(* Unsubscribes on its way out; its variables go with it. *)
WorkerReturns(c) ==
    /\ wpc' = [wpc EXCEPT ![c] = "gone"]
    /\ acquired' = acquired \ {c}
    /\ registered' = (registered /\ acquired \ {c} # {})
    /\ completed' = [completed EXCEPT ![c] = 0] /\ covered' = [covered EXCEPT ![c] = 0]
    /\ attempt' = [attempt EXCEPT ![c] = 0] /\ ackOk' = [ackOk EXCEPT ![c] = FALSE]
    /\ answer' = [answer EXCEPT ![c] = "none"] /\ good' = [good EXCEPT ![c] = FALSE]
    /\ crossed' = crossed \ {c}

(* The wait's context ends while its worker waits for a request, for a     *)
(* timer, or for an answer.                                                *)
WorkerStops(c) ==
    /\ wpc[c] \notin {"none", "gone"}
    /\ pc[c] # "wait"
    /\ WorkerReturns(c)
    /\ UNCHANGED <<op, handle, pc, verdict, slot, recovery, up, wire, faults>>

(* A request is taken; a round starts unless one that began later than all *)
(* recoveries is complete. The first round subscribes.                     *)
TakeRequest(c) ==
    /\ wpc[c] = "idle" /\ pc[c] = "wait" /\ c \in requests
    /\ requests' = requests \ {c}
    /\ IF slot[c] # "none" \/ revision[c] <= completed[c]
       THEN UNCHANGED worker
       ELSE /\ wpc' = [wpc EXCEPT ![c] = "ack"]
            /\ covered' = [covered EXCEPT ![c] = revision[c]]
            /\ attempt' = [attempt EXCEPT ![c] = 0]
            /\ acquired' = acquired \cup {c}
            /\ good' = [good EXCEPT ![c] = FALSE]
            /\ UNCHANGED <<completed, ackOk, answer, crossed>>
    /\ UNCHANGED <<op, handle, pc, verdict, slot, nudges, revision, socket, faults>>

(* Mutant of CoversFrom: the round covers what comes up to its answer. *)
MutCoversFrom(c) == revision[c] + nudges[c] + 1

(* What a round covers: the recoveries called before its read. *)
CoversFrom(c) == revision[c]

(* confirmEventTypes: the server takes the types on the socket that is up  *)
(* and acknowledges them.                                                  *)
Acknowledged(c) ==
    /\ wpc[c] = "ack" /\ up
    /\ registered' = TRUE
    /\ ackOk' = [ackOk EXCEPT ![c] = TRUE]
    /\ wpc' = [wpc EXCEPT ![c] = "confirmed"]
    /\ crossed' = crossed \ {c}
    /\ UNCHANGED <<op, handle, pc, verdict, slot, recovery, completed, covered, attempt, acquired,
                   answer, good, up, wire, faults>>

(* It fails or times out, or its acknowledgement does not come through. *)
AckFails(c) ==
    /\ wpc[c] = "ack" \/ (wpc[c] = "confirmed" /\ ackOk[c])
    /\ Fault
    /\ ackOk' = [ackOk EXCEPT ![c] = FALSE]
    /\ wpc' = [wpc EXCEPT ![c] = "confirmed"]
    /\ crossed' = crossed \ {c}
    /\ UNCHANGED <<op, handle, pc, verdict, slot, recovery, completed, covered, attempt, acquired,
                   answer, good, socket>>

(* The worker goes on after the confirmation, and loads what its read will *)
(* cover.                                                                  *)
Load(c) ==
    /\ wpc[c] = "confirmed" /\ ~Over(c)
    /\ covered' = [covered EXCEPT ![c] = CoversFrom(c)]
    /\ wpc' = [wpc EXCEPT ![c] = "read"]
    /\ UNCHANGED <<op, handle, pc, verdict, slot, recovery, completed, attempt, acquired, ackOk,
                   answer, good, crossed, socket, faults>>

(* The server serves GET /operations/{id}, or the request fails. *)
Serve(c) ==
    /\ wpc[c] = "read"
    /\ \/ answer' = [answer EXCEPT ![c] = op] /\ UNCHANGED faults
       \/ answer' = [answer EXCEPT ![c] = "error"] /\ Fault
    /\ wpc' = [wpc EXCEPT ![c] = "reply"]
    /\ UNCHANGED <<op, handle, pc, verdict, slot, recovery, completed, covered, attempt, acquired,
                   ackOk, good, crossed, socket>>

(* The worker finds the wait over after its confirmation or its answer. *)
WorkerLeaves(c) ==
    /\ wpc[c] \in {"confirmed", "reply"} /\ slot[c] # "none"
    /\ WorkerReturns(c)
    /\ UNCHANGED <<op, handle, pc, verdict, slot, recovery, up, wire, faults>>

RoundEnds(c, ok) ==
    /\ wpc' = [wpc EXCEPT ![c] = "idle"]
    /\ completed' = [completed EXCEPT ![c] = covered[c]]
    /\ good' = [good EXCEPT ![c] = ok]
    /\ UNCHANGED <<covered, attempt, acquired, ackOk, crossed>>

(* The answer: the operation is settled; or it is pending and the stream   *)
(* takes over; or the attempt failed and the next one follows its timer,   *)
(* three in all.                                                           *)
Reply(c) ==
    /\ wpc[c] = "reply" /\ ~Over(c)
    /\ slot' = TryResolve({c}, answer[c])
    /\ IF answer[c] \in Terminal
       THEN WorkerReturns(c)
       ELSE /\ answer' = [answer EXCEPT ![c] = "none"]
            /\ UNCHANGED registered
            /\ LET ok == answer[c] = "pending" /\ ackOk[c] IN
               IF ok \/ attempt[c] = 2
               THEN RoundEnds(c, ok)
               ELSE /\ wpc' = [wpc EXCEPT ![c] = "backoff"]
                    /\ UNCHANGED <<completed, covered, attempt, acquired, ackOk, good, crossed>>
    /\ UNCHANGED <<op, handle, pc, verdict, recovery, up, wire, faults>>

Backoff(c) ==
    /\ wpc[c] = "backoff"
    /\ pc[c] = "wait"
    /\ attempt' = [attempt EXCEPT ![c] = @ + 1]
    /\ wpc' = [wpc EXCEPT ![c] = "ack"]
    /\ UNCHANGED <<op, handle, pc, verdict, slot, recovery, completed, covered, acquired, ackOk,
                   answer, good, crossed, socket, faults>>

-----------------------------------------------------------------------------
(* The server and the socket.                                              *)

(* The operation settles; its event goes to the sockets that registered. *)
Settle ==
    /\ op = "pending" /\ sub # "calling"
    /\ op' \in Terminal
    /\ wire' = IF up /\ registered THEN "sent" ELSE wire
    /\ UNCHANGED <<handle, pc, verdict, slot, recovery, worker, up, registered, faults>>

(* The server processes a subscribe message of subscribeEvents or of       *)
(* resubscribe.                                                            *)
Register ==
    /\ up /\ acquired # {} /\ ~registered
    /\ registered' = TRUE
    /\ UNCHANGED <<op, handle, pc, verdict, slot, recovery, worker, up, wire, faults>>

(* The event arrives, with the operation... *)
Event ==
    /\ wire = "sent"
    /\ wire' = "none"
    /\ slot' = TryResolve(Listening, op)
    /\ UNCHANGED <<op, handle, pc, verdict, recovery, worker, up, registered, faults>>

(* ...or without it, which only says that something changed. *)
BareEvent ==
    /\ wire = "sent"
    /\ wire' = "none"
    /\ Recover(Listening)
    /\ UNCHANGED <<op, handle, pc, verdict, slot, worker, up, registered, faults>>

(* It is lost, as the next event's sequence number tells. *)
Lose ==
    /\ wire = "sent" /\ Fault
    /\ wire' = "lost"
    /\ UNCHANGED <<op, handle, pc, verdict, slot, recovery, worker, up, registered>>

Gap ==
    /\ wire = "lost"
    /\ wire' = "none"
    /\ Recover(Listening)
    /\ UNCHANGED <<op, handle, pc, verdict, slot, worker, up, registered, faults>>

(* The socket goes, with what it carries. *)
Drop ==
    /\ up /\ Fault
    /\ up' = FALSE /\ registered' = FALSE /\ wire' = "none"
    /\ UNCHANGED <<op, handle, pc, verdict, slot, recovery, worker>>

(* The workers that are between their confirmation and their load. *)
Cross ==
    crossed' = IF registered' THEN crossed
               ELSE crossed \cup {c \in Callers : wpc[c] = "confirmed"}

(* A new one is authenticated, which calls recover. *)
Authenticated ==
    /\ ~up
    /\ up' = TRUE
    /\ Recover(Listening)
    /\ UNCHANGED registered /\ Cross
    /\ UNCHANGED <<op, handle, pc, verdict, slot, completed, covered, wpc, attempt, acquired, ackOk,
                   answer, good, wire, faults>>

(* A rotation: the retired socket may take the event along, and the new    *)
(* one may lack a subscription taken while it warmed. It calls recover.    *)
Rotated ==
    /\ up /\ Fault
    /\ wire' \in {wire, "none"}
    /\ registered' \in {registered, FALSE}
    /\ Recover(Listening) /\ Cross
    /\ UNCHANGED <<op, handle, pc, verdict, slot, completed, covered, wpc, attempt, acquired, ackOk,
                   answer, good, up>>

Next ==
    \/ Submitted \/ SubmitFails
    \/ \E c \in Callers :
          \/ Wait(c) \/ SettledAtOnce(c) \/ CancelSubmitted(c) \/ WaitForOperation(c)
          \/ TakeResult(c) \/ Deadline(c)
          \/ Join(c) \/ Store(c) \/ Nudge(c)
          \/ WorkerStops(c) \/ TakeRequest(c) \/ Acknowledged(c) \/ AckFails(c)
          \/ Load(c) \/ Serve(c) \/ WorkerLeaves(c) \/ Reply(c) \/ Backoff(c)
    \/ Settle \/ Register \/ Event \/ BareEvent \/ Lose \/ Gap \/ Drop \/ Authenticated \/ Rotated

Spec == Init /\ [][Next]_vars

(* The goroutines run, the server answers, sent events arrive and the      *)
(* connect loop gets through; no deadline is needed.                       *)
Fairness ==
    /\ WF_vars(Submitted) /\ WF_vars(Authenticated) /\ WF_vars(Event \/ BareEvent)
    /\ \A c \in Callers :
          /\ WF_vars(Wait(c) \/ SettledAtOnce(c) \/ WaitForOperation(c) \/ TakeResult(c)
                     \/ Join(c) \/ Store(c))
          /\ WF_vars(Nudge(c))
          /\ WF_vars(WorkerStops(c) \/ TakeRequest(c) \/ Acknowledged(c) \/ Load(c) \/ Serve(c)
                     \/ WorkerLeaves(c) \/ Reply(c) \/ Backoff(c))

-----------------------------------------------------------------------------
(* A wait that is over has left nothing behind: its worker has ended and   *)
(* its interest in the event types is released (waitForOperation's defers).*)
NothingLeft ==
    \A c \in Callers : pc[c] \in {"store", "done"} => wpc[c] \in {"none", "gone"} /\ c \notin acquired

(* The last round counts the socket that replaced the one it was confirmed *)
(* on: "Once the subscription is acknowledged every later operation event  *)
(* reaches this socket, so the read below covers the window the stream     *)
(* could not" (arca.go:495-497) is not true of it, and its settlement may  *)
(* be missed.                                                              *)
Miscounted(c) == wpc[c] = "idle" /\ good[c] /\ c \in crossed

(* A worker whose last round was acknowledged and answered, and that has   *)
(* nothing more to do, misses no settlement: the event is under way or its *)
(* loss is about to be noticed, or the socket is down and its successor    *)
(* calls recover. It is what the order of acknowledgement, revision and    *)
(* read in waitForOperation is for, which fails only when the socket is    *)
(* replaced between the first two.                                         *)
NoMissedSettlement ==
    \A c \in Callers :
       (/\ pc[c] = "wait" /\ slot[c] = "none"
        /\ wpc[c] = "idle" /\ good[c]
        /\ c \notin requests /\ nudges[c] = 0
        /\ op \in Terminal)
       => wire # "none" \/ ~up \/ Miscounted(c)

(* What Wait keeps for later callers is a settlement, and the operation's: *)
(* "A caller deadline or temporary read failure is not cached."            *)
CacheIsSettlement == settleDone => stored = "completed" /\ op = "completed"

(* waitForOperation: no settlement falls between the read and the stream,  *)
(* a wait that is over has left no worker and no subscription behind, and  *)
(* Wait caches settlements only.                                           *)
WaitSound == TypeOK /\ NoMissedSettlement /\ NothingLeft /\ CacheIsSettlement

(* The handle keeps the promise of Settlement: a caller is told of the     *)
(* settlement the operation has, from the cache too, whatever its          *)
(* submission, its reads and the stream showed before.                     *)
Promise == INSTANCE Settlement WITH
    verdict <- [c \in Callers |-> IF pc[c] = "done" THEN verdict[c] ELSE "none"]
Settled == Promise!Spec

(* A wait for an operation that has settled ends by itself, unless the     *)
(* event's loss goes unnoticed or its round is miscounted, which leaves it *)
(* to its deadline. (Three failed attempts in a round, which the bound on  *)
(* faults excludes, would do so too.)                                      *)
EndsOf(c) == (pc[c] = "wait" /\ op \in Terminal) ~> (pc[c] # "wait" \/ wire = "lost" \/ Miscounted(c))
WaitEnds == \A c \in Callers : EndsOf(c)
=============================================================================
