--------------------------- MODULE SocketRequests ---------------------------
(***************************************************************************)
(* Requests over the socket (websocket.go): m.pending, and the callers     *)
(* that wait on its channels. A request is made on a goroutine of its own, *)
(* and a request is named by it.                                           *)
(*                                                                         *)
(* A barrier (requestPathSnapshot, confirmEventTypes) defers its message   *)
(* to the next authentication BEFORE it looks whether the manager is       *)
(* connected, and takes everything back when it returns. The others use    *)
(* sendWhenConnected, which looks first and cannot take the message back.  *)
(*                                                                         *)
(* A connection is named by its number, and so is the goroutine reading    *)
(* it. Its lifecycle is in WebSocketManager; a whole rotation is one step  *)
(* here. stranded and asked record what the properties speak of; no action *)
(* reads them.                                                             *)
(***************************************************************************)
EXTENDS Naturals, FiniteSets

CONSTANTS
    Barriers,      \* calls of requestPathSnapshot and confirmEventTypes
    Others,        \* calls of the other three, kind says of which
    None,          \* no connection, no request
    MaxConns,      \* bound: connections in a behaviour
    MaxReplaced    \* bound: calls of Reconnect, and rotations

Requests == Barriers \cup Others
ConnIds == 1..MaxConns
Senders == Requests \cup ConnIds

ASSUME ConstantsOK ==
    /\ MaxConns \in Nat /\ MaxReplaced \in Nat
    /\ Requests \cap ConnIds = {}
    /\ Barriers \cap Others = {}
    /\ None \notin Senders

VARIABLES
    kind,          \* which request each of Others makes
    pc,            \* where each caller is
    outcome,       \* what it returns
    pending,       \* the keys of m.pending
    ch,            \* its channel: open, an answer, an error, or closed
    active,        \* the callers whose message may still go out
    deferred,      \* m.authList: the messages to send once authenticated
    chartWatches,  \* the chart watches recorded for the next resubscribe
    job,           \* the message each sender is sending
    at,            \* where it is in send
    target,        \* the connection send picked
    sendMu,        \* the holder of each barrier's sendMu
    conn,          \* m.conn
    connected,     \* m.status = StatusConnected
    gen,           \* the connection of the current generation
    rpc,           \* where each connection's goroutine is
    due,           \* the callbacks it has yet to run
    hold,          \* the answer it has found current
    alive,         \* the sockets that still carry messages
    wire,          \* the requests the server has, unanswered, per connection
    used,          \* connections made so far
    replaced,      \* replacements so far
    stranded,      \* the barriers pending when their connection was replaced
    asked          \* the barriers written on the current connection

callers == <<kind, pc, outcome, active, chartWatches>>
table == <<pending, ch>>
sending == <<job, at, target, sendMu>>
link == <<conn, connected, gen>>
reader == <<rpc, due, hold>>
net == <<alive, wire, used, replaced>>
ghost == <<stranded, asked>>
vars == <<callers, table, deferred, sending, link, reader, net, ghost>>

(* projectionRequest, createAggregationWatch, createChartHistoryWatch. *)
Projections == {r \in Others : kind[r] = "projection"}
Aggregations == {r \in Others : kind[r] = "aggregation"}
Charts == {r \in Others : kind[r] = "chart"}

PCs == {"idle", "defer", "check", "cancel", "send", "wait", "leave",
        "undefer", "drop", "done"}

(* One type invariant for the module. *)
TypeOK ==
    /\ kind \in [Others -> {"projection", "aggregation", "chart"}]
    /\ pc \in [Requests -> PCs]
    /\ outcome \in [Requests -> {"none", "ok", "error", "disconnected", "cancelled",
                              "timeout"}]
    /\ pending \in SUBSET Requests
    /\ ch \in [Requests -> {"open", "answer", "error", "closed"}]
    /\ active \in SUBSET Requests
    /\ deferred \in SUBSET Requests
    /\ chartWatches \in SUBSET Others
    /\ job \in [Senders -> Requests \cup {None}]
    /\ at \in [Senders -> {"idle", "lock", "send", "write"}]
    /\ target \in [Senders -> ConnIds \cup {None}]
    /\ sendMu \in [Requests -> Senders \cup {None}]
    /\ conn \in ConnIds \cup {None}
    /\ connected \in BOOLEAN
    /\ gen \in ConnIds \cup {None}
    /\ rpc \in [ConnIds -> {"none", "begin", "dial", "auth", "authenticated",
                        "callbacks", "serve", "end", "gone"}]
    /\ due \in [ConnIds -> SUBSET Requests]
    /\ hold \in [ConnIds -> (Requests \X {"answer", "error"}) \cup {None}]
    /\ alive \in SUBSET ConnIds
    /\ wire \in [ConnIds -> SUBSET Requests]
    /\ used \in Nat /\ replaced \in Nat
    /\ stranded \in SUBSET Barriers /\ asked \in SUBSET Barriers

Init ==
    /\ kind \in [Others -> {"projection", "aggregation", "chart"}]
    /\ pc = [r \in Requests |-> "idle"]
    /\ outcome = [r \in Requests |-> "none"]
    /\ pending = {} /\ ch = [r \in Requests |-> "open"]
    /\ active = {} /\ deferred = {} /\ chartWatches = {}
    /\ job = [s \in Senders |-> None] /\ at = [s \in Senders |-> "idle"]
    /\ target = [s \in Senders |-> None]
    /\ sendMu = [r \in Requests |-> None]
    /\ conn = None /\ connected = FALSE /\ gen = None
    /\ rpc = [c \in ConnIds |-> "none"]
    /\ due = [c \in ConnIds |-> {}] /\ hold = [c \in ConnIds |-> None]
    /\ alive = {} /\ wire = [c \in ConnIds |-> {}]
    /\ used = 0 /\ replaced = 0
    /\ stranded = {} /\ asked = {}

-----------------------------------------------------------------------------
(* Sending, by a caller or by the goroutine that runs its callback.        *)

Stranded == stranded \cup (pending \cap Barriers)

Goto(r, label) == pc' = [pc EXCEPT ![r] = label]

(* s starts to send r's message; a barrier's is sent under its sendMu. *)
StartSend(s, r) ==
    /\ job' = [job EXCEPT ![s] = r]
    /\ at' = [at EXCEPT ![s] = IF r \in Barriers THEN "lock" ELSE "send"]
    /\ UNCHANGED <<target, sendMu>>

(* A caller waits once its message is out. *)
Finish(s) ==
    /\ pc' = [r \in Requests |-> IF r = s THEN "wait" ELSE pc[r]]
    /\ at' = [at EXCEPT ![s] = "idle"]
    /\ job' = [job EXCEPT ![s] = None]
    /\ target' = [target EXCEPT ![s] = None]
    /\ sendMu' = [r \in Requests |-> IF sendMu[r] = s THEN None ELSE sendMu[r]]

(* sendWatch: nothing goes out once the caller has left or its context is  *)
(* done.                                                                   *)
Lock(s) ==
    /\ at[s] = "lock"
    /\ sendMu[job[s]] = None
    /\ IF job[s] \in active /\ outcome[job[s]] # "cancelled"
       THEN /\ sendMu' = [sendMu EXCEPT ![job[s]] = s]
            /\ at' = [at EXCEPT ![s] = "send"]
            /\ UNCHANGED <<pc, job, target>>
       ELSE Finish(s)
    /\ UNCHANGED <<kind, outcome, active, chartWatches, table, deferred, link, reader, net, ghost>>

(* send picks the connection, or drops the message... *)
Send(s) ==
    /\ at[s] = "send"
    /\ IF conn # None /\ connected
       THEN /\ target' = [target EXCEPT ![s] = conn]
            /\ at' = [at EXCEPT ![s] = "write"]
            /\ UNCHANGED <<pc, job, sendMu>>
       ELSE Finish(s)
    /\ UNCHANGED <<kind, outcome, active, chartWatches, table, deferred, link, reader, net, ghost>>

(* ...and the message is written, or lost with the socket. *)
Write(s) ==
    /\ at[s] = "write"
    /\ IF target[s] \in alive
       THEN /\ wire' = [wire EXCEPT ![target[s]] = @ \cup {job[s]}]
            /\ asked' = IF target[s] = conn THEN asked \cup ({job[s]} \cap Barriers) ELSE asked
       ELSE UNCHANGED <<wire, asked>>
    /\ Finish(s)
    /\ UNCHANGED <<kind, outcome, active, chartWatches, table, deferred, link, reader, alive, used,
                   replaced, stranded>>

-----------------------------------------------------------------------------
(* The callers.                                                            *)

(* Mutant of FirstStep: a barrier looks before it defers, too. *)
MutFirstStep(r) == "check"

(* A barrier defers and then looks whether the manager is connected; the   *)
(* others look, and defer when it is not.                                  *)
FirstStep(r) == IF r \in Barriers THEN "defer" ELSE "check"

(* Mutant of Recorded: whatever is requested is kept as a chart watch. *)
MutRecorded(r) == chartWatches \cup {r}

(* createChartHistoryWatch records its watch before it asks for it. *)
Recorded(r) == chartWatches \cup ({r} \cap Charts)

(* newRequestID and registerPending. *)
RegisterPending(r) ==
    /\ pc[r] = "idle"
    /\ pending' = pending \cup {r}
    /\ active' = active \cup {r}
    /\ chartWatches' = Recorded(r)
    /\ Goto(r, FirstStep(r))
    /\ UNCHANGED <<kind, outcome, ch, deferred, sending, link, reader, net, ghost>>

(* onAuthenticatedOnce. *)
OnAuthenticatedOnce(r) ==
    /\ pc[r] = "defer"
    /\ deferred' = deferred \cup {r}
    /\ Goto(r, IF FirstStep(r) = "defer" THEN "check" ELSE "wait")
    /\ UNCHANGED <<kind, outcome, active, chartWatches, table, sending, link, reader, net, ghost>>

CheckConnected(r) ==
    /\ pc[r] = "check"
    /\ \/ /\ connected /\ r \in Barriers
          /\ Goto(r, "cancel")
          /\ UNCHANGED sending
       \/ /\ connected /\ r \notin Barriers
          /\ Goto(r, "send")
          /\ StartSend(r, r)
       \/ /\ ~connected
          /\ Goto(r, IF FirstStep(r) = "defer" THEN "wait" ELSE "defer")
          /\ UNCHANGED sending
    /\ UNCHANGED <<kind, outcome, active, chartWatches, table, deferred, link, reader, net, ghost>>

(* cancelDeferred, and the message at once. *)
CancelDeferred(r) ==
    /\ pc[r] = "cancel"
    /\ deferred' = deferred \ {r}
    /\ Goto(r, "send")
    /\ StartSend(r, r)
    /\ UNCHANGED <<kind, outcome, active, chartWatches, table, link, reader, net, ghost>>

(* Mutant of Outcome: a closed channel is taken for an answer. *)
MutOutcome(r) == IF ch[r] = "error" THEN "error" ELSE "ok"

(* What the caller makes of its channel. A chart watch takes whatever      *)
(* comes, an aggregation watch an error too, for an answer.                *)
Outcome(r) ==
    CASE ch[r] = "answer" \/ r \in Charts -> "ok"
      [] ch[r] = "error" /\ r \notin Charts -> IF r \in Aggregations THEN "ok" ELSE "error"
      [] ch[r] = "closed" /\ r \notin Charts -> "disconnected"

(* The channel has something. *)
Receive(r) ==
    /\ pc[r] = "wait"
    /\ ch[r] # "open"
    /\ outcome' = [outcome EXCEPT ![r] = Outcome(r)]
    /\ Goto(r, IF r \in Barriers THEN "leave" ELSE "done")
    /\ UNCHANGED <<kind, active, chartWatches, table, deferred, sending, link, reader, net, ghost>>

(* The context is done, or the timeout has passed. Aggregation and chart   *)
(* watches leave their entry in m.pending behind.                          *)
GiveUp(r, why) ==
    /\ pc[r] = "wait"
    /\ outcome' = [outcome EXCEPT ![r] = IF r \in Barriers THEN why ELSE "timeout"]
    /\ chartWatches' = chartWatches \ {r}
    /\ Goto(r, IF r \in Barriers THEN "leave" ELSE IF r \in Projections THEN "drop" ELSE "done")
    /\ UNCHANGED <<kind, active, table, deferred, sending, link, reader, net, ghost>>

(* Mutant of MayLeave: the caller does not wait for a message on its way. *)
MutMayLeave(r) == TRUE

(* The deferred function needs sendMu... *)
MayLeave(r) == sendMu[r] = None

(* ...to turn the message off... *)
Leave(r) ==
    /\ pc[r] = "leave"
    /\ MayLeave(r)
    /\ active' = active \ {r}
    /\ Goto(r, "undefer")
    /\ UNCHANGED <<kind, outcome, chartWatches, table, deferred, sending, link, reader, net, ghost>>

(* ...calls cancelDeferred... *)
Undefer(r) ==
    /\ pc[r] = "undefer"
    /\ deferred' = deferred \ {r}
    /\ Goto(r, "drop")
    /\ UNCHANGED <<kind, outcome, active, chartWatches, table, sending, link, reader, net, ghost>>

(* Mutant of Dropped: the entry stays. *)
MutDropped(r) == pending

(* ...and deletes the entry; projectionRequest's dropPending does this too. *)
Dropped(r) == pending \ {r}

DropPending(r) ==
    /\ pc[r] = "drop"
    /\ pending' = Dropped(r)
    /\ Goto(r, "done")
    /\ UNCHANGED <<kind, outcome, active, chartWatches, ch, deferred, sending, link, reader, net,
                   ghost>>

-----------------------------------------------------------------------------
(* A connection and its goroutine.                                         *)

(* EnsureConnected, or the connect loop's next attempt. *)
Start ==
    /\ gen = None /\ used < MaxConns
    /\ used' = used + 1
    /\ gen' = used + 1
    /\ rpc' = [rpc EXCEPT ![used + 1] = "begin"]
    /\ UNCHANGED <<callers, table, deferred, sending, conn, connected, due, hold, alive, wire,
                   replaced, ghost>>

(* beginAttempt. After Reconnect the status has been connected until now,  *)
(* with no connection: what was sent meanwhile is lost.                    *)
BeginAttempt(c) ==
    /\ rpc[c] = "begin"
    /\ IF gen = c
       THEN /\ connected' = FALSE
            /\ stranded' = IF connected THEN Stranded ELSE stranded
            /\ rpc' = [rpc EXCEPT ![c] = "dial"]
       ELSE /\ rpc' = [rpc EXCEPT ![c] = "gone"]
            /\ UNCHANGED <<connected, stranded>>
    /\ UNCHANGED <<callers, table, deferred, sending, conn, gen, due, hold, net, asked>>

(* dialAndServe up to the read loop; a failed dial is a socket that drops. *)
Install(c) ==
    /\ rpc[c] = "dial"
    /\ IF gen = c
       THEN /\ conn' = c
            /\ alive' = alive \cup {c} /\ asked' = {}
            /\ rpc' = [rpc EXCEPT ![c] = "auth"]
       ELSE /\ rpc' = [rpc EXCEPT ![c] = "gone"]
            /\ UNCHANGED <<conn, alive, asked>>
    /\ UNCHANGED <<callers, table, deferred, sending, connected, gen, due, hold, wire, used,
                   replaced, stranded>>

(* What a read finds before it hands its message over. *)
Current(c) == conn = c /\ gen = c /\ c \in alive

ReadAuthenticated(c) ==
    /\ rpc[c] = "auth"
    /\ Current(c)
    /\ rpc' = [rpc EXCEPT ![c] = "authenticated"]
    /\ UNCHANGED <<callers, table, deferred, sending, link, due, hold, net, ghost>>

(* By now another connection may be current: the status is connected all   *)
(* the same until that one begins its attempt or authenticates.            *)
OnAuthenticated(c) ==
    /\ rpc[c] = "authenticated"
    /\ connected' = TRUE
    /\ stranded' = IF connected THEN Stranded ELSE stranded
    /\ due' = [due EXCEPT ![c] = deferred]
    /\ rpc' = [rpc EXCEPT ![c] = "callbacks"]
    /\ UNCHANGED <<callers, table, deferred, sending, conn, gen, hold, net, asked>>

(* A callback takes itself off m.authList, and sends if it was there. *)
RunCallback(c, r) ==
    /\ rpc[c] = "callbacks" /\ at[c] = "idle"
    /\ r \in due[c]
    /\ due' = [due EXCEPT ![c] = @ \ {r}]
    /\ deferred' = deferred \ {r}
    /\ IF r \in deferred THEN StartSend(c, r) ELSE UNCHANGED sending
    /\ UNCHANGED <<callers, table, link, rpc, hold, net, ghost>>

CallbacksDone(c) ==
    /\ rpc[c] = "callbacks" /\ at[c] = "idle"
    /\ due[c] = {}
    /\ rpc' = [rpc EXCEPT ![c] = "serve"]
    /\ UNCHANGED <<callers, table, deferred, sending, link, due, hold, net, ghost>>

(* The server answers a request, and the read finds its socket current. *)
Read(c, r, answer) ==
    /\ rpc[c] = "serve" /\ hold[c] = None
    /\ Current(c)
    /\ r \in wire[c]
    /\ wire' = [wire EXCEPT ![c] = @ \ {r}]
    /\ hold' = [hold EXCEPT ![c] = <<r, answer>>]
    /\ UNCHANGED <<callers, table, deferred, sending, link, rpc, due, alive, used, replaced, ghost>>

(* resolvePending deletes the entry under m.mu... *)
Taken(r) == pending \ {r}

(* ...and puts the answer into the channel of whoever had one. *)
ResolvePending(c) ==
    /\ hold[c] # None
    /\ hold' = [hold EXCEPT ![c] = None]
    /\ LET r == hold[c][1]
       IN  IF r \in pending
           THEN pending' = Taken(r) /\ ch' = [ch EXCEPT ![r] = hold[c][2]]
           ELSE UNCHANGED table
    /\ UNCHANGED <<callers, deferred, sending, link, rpc, due, net, ghost>>

(* A socket ends, with the requests the server has not answered on it. *)
Close(cs) ==
    /\ alive' = alive \ cs
    /\ wire' = [c \in ConnIds |-> IF c \in cs THEN {} ELSE wire[c]]

(* The network ends a socket. *)
DropSocket(c) ==
    /\ c \in alive
    /\ Close({c})
    /\ UNCHANGED <<callers, table, deferred, sending, link, reader, used, replaced, ghost>>

ReadFails(c) ==
    /\ rpc[c] \in {"auth", "serve"} /\ hold[c] = None
    /\ c \notin alive
    /\ conn' = IF conn = c THEN None ELSE conn
    /\ rpc' = [rpc EXCEPT ![c] = "end"]
    /\ UNCHANGED <<callers, table, deferred, sending, connected, gen, due, hold, net, ghost>>

(* rejectPendingLocked closes the channels. *)
RejectPending ==
    /\ ch' = [r \in Requests |-> IF r \in pending THEN "closed" ELSE ch[r]]
    /\ pending' = {}

(* endAttempt, unless another generation took over. *)
EndAttempt(c) ==
    /\ rpc[c] = "end"
    /\ rpc' = [rpc EXCEPT ![c] = "gone"]
    /\ IF gen = c
       THEN /\ connected' = FALSE
            /\ gen' = None
            /\ RejectPending
       ELSE UNCHANGED <<connected, gen, table>>
    /\ UNCHANGED <<callers, deferred, sending, conn, due, hold, net, ghost>>

(* The connection is replaced under the requests that use it. *)
Replace ==
    /\ replaced < MaxReplaced
    /\ replaced' = replaced + 1
    /\ stranded' = Stranded /\ asked' = {}
    /\ UNCHANGED <<callers, table, deferred, sending, due, hold>>

Reconnect ==
    /\ Replace
    /\ gen # None /\ used < MaxConns
    /\ used' = used + 1
    /\ gen' = used + 1
    /\ conn' = None
    /\ Close({conn})
    /\ rpc' = [rpc EXCEPT ![used + 1] = "begin"]
    /\ UNCHANGED connected

(* A rotation, promoteHandoff included. It waits for pending requests only *)
(* so often.                                                               *)
Promote ==
    /\ Replace
    /\ conn # None /\ conn = gen /\ connected /\ used < MaxConns
    /\ used' = used + 1
    /\ gen' = used + 1
    /\ conn' = used + 1
    /\ alive' = (alive \ {conn}) \cup {used + 1}
    /\ wire' = [wire EXCEPT ![conn] = {}]
    /\ rpc' = [rpc EXCEPT ![used + 1] = "serve"]
    /\ UNCHANGED connected

Disconnect ==
    /\ Replace
    /\ gen # None
    /\ gen' = None /\ conn' = None /\ connected' = FALSE
    /\ Close({conn})
    /\ UNCHANGED <<used, rpc>>

-----------------------------------------------------------------------------
SendStep(s) == Lock(s) \/ Send(s) \/ Write(s)

CallerStep(r) ==
    \/ RegisterPending(r) \/ OnAuthenticatedOnce(r) \/ CheckConnected(r) \/ CancelDeferred(r)
    \/ Receive(r) \/ GiveUp(r, "cancelled") \/ GiveUp(r, "timeout")
    \/ Leave(r) \/ Undefer(r) \/ DropPending(r)

ConnStep(c) ==
    \/ BeginAttempt(c) \/ Install(c) \/ ReadAuthenticated(c) \/ OnAuthenticated(c)
    \/ CallbacksDone(c)
    \/ \E r \in Requests : RunCallback(c, r) \/ Read(c, r, "answer") \/ Read(c, r, "error")
    \/ ResolvePending(c) \/ DropSocket(c) \/ ReadFails(c) \/ EndAttempt(c)

Next ==
    \/ \E s \in Senders : SendStep(s)
    \/ \E r \in Requests : CallerStep(r)
    \/ \E c \in ConnIds : ConnStep(c)
    \/ Start \/ Reconnect \/ Promote \/ Disconnect

Spec == Init /\ [][Next]_vars

-----------------------------------------------------------------------------
(* Correctness.                                                            *)

(* The current connection serves, and nothing is on its way to it. *)
Quiet ==
    /\ conn \in alive /\ gen = conn
    /\ rpc[conn] = "serve"
    /\ \A s \in Senders : at[s] = "idle"

(* No wake-up is lost: a barrier that still waits while a connection       *)
(* serves has been asked for on that connection, however its registration  *)
(* and the authentication interleaved, unless it waited while a connection *)
(* was replaced or the status was connected for want of a newer one.       *)
BarrierAsked ==
    Quiet => \A r \in Barriers :
                pc[r] = "wait" /\ ch[r] = "open" /\ r \notin stranded => r \in asked

(* A channel is signalled once: a second answer would block the read loop, *)
(* and an answer after the close, or a second close, panics.               *)
SignalledOnce ==
    [][\A r \in Requests : ch[r] # "open" => ch'[r] = ch[r]]_vars

(* A barrier that has returned sends nothing any more: sendWatch and the   *)
(* deferred function exclude each other.                                   *)
NoLateSend ==
    \A s \in Senders : at[s] \in {"send", "write"} /\ job[s] \in Barriers => job[s] \in active

(* A barrier or projection request that has returned left neither an entry *)
(* in m.pending, which would delay promotions, nor (a barrier) a callback. *)
NothingLeft ==
    \A r \in Requests : pc[r] = "done" =>
        /\ r \in Barriers => r \notin deferred
        /\ r \in Barriers \cup Projections => r \notin pending

(* requestPathSnapshot, confirmEventTypes, projectionRequest: what a       *)
(* request that returned has left is nothing, in the tables and on the     *)
(* wire.                                                                   *)
RequestsSound == TypeOK /\ NothingLeft /\ NoLateSend

(* A barrier or projection request succeeds only with an answer to it: the *)
(* loss of the connection never counts as one.                             *)
OkIsAnswered ==
    \A r \in Barriers \cup Projections : outcome[r] = "ok" => ch[r] = "answer"
=============================================================================
