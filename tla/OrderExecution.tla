--------------------------- MODULE OrderExecution ---------------------------
(***************************************************************************)
(* The execution of one order: its orderStream (order_stream.go), opened   *)
(* before the order is submitted, and one ExecutionReceipt on its handle   *)
(* (waitExecutionEvidence, operation.go).                                  *)
(*                                                                         *)
(* The stream keeps the last events in a replay buffer for observers that  *)
(* come late. The wait gathers events, and a goroutine of its own reads    *)
(* the order at most MaxReads times: once after the subscription is        *)
(* acknowledged, then after a gap, an authentication or a failed read. The *)
(* venue's id of the order may be unknown at first; events of the account  *)
(* are kept until it is.                                                   *)
(*                                                                         *)
(* An event is mine (the order's terminal update), opFailed or opExecuted  *)
(* (an update of its operation), or else (another order of the account, or *)
(* an update that ends nothing). h.Wait is OperationWait's; here it        *)
(* returns once the operation is settled.                                  *)
(***************************************************************************)
EXTENDS Integers, Sequences

CONSTANTS
    MaxNoise,   \* bound: events of other orders
    MaxFaults,  \* bound: lost events, lost sockets, failed requests
    MaxReads,   \* reads per wait (three in the code)
    Cap,        \* events the replay keeps (256 in the code)
    EarlyCap    \* events the wait keeps until the order's id is known (256 in the code)

VARIABLES
    op, order,                   \* on the server
    names,                       \* the settled operation's outcome has the order id
    up, registered, wire, lossy, \* the socket
    noise, faults,
    sub, known,                  \* the response, and whether it has the order id
    spc, ready, started, held,   \* the stream's goroutine, s.ready, s.watchStarted, its reference
    replay, listening, stopped, release,
    dispatch,                    \* the event the read loop hands to the listeners
    pc, batch, events, wake, recovery, resolved, verdict,
    rpc, attempt, answer, result, retry,
    due,                         \* captured events the wait has yet to get
    unacked                      \* the first read trusted an acknowledgement of a lost connection

server == <<op, order, names>>
socket == <<up, registered, wire, lossy>>
bounds == <<noise, faults>>
response == <<sub, known>>
stream == <<spc, ready, started, held, replay, listening, stopped, release, dispatch>>
wait == <<pc, batch, events, verdict>>
reader == <<rpc, attempt, answer, result, retry>>
ghosts == <<due, unacked>>
vars == <<server, socket, bounds, response, stream, wait, wake, recovery, resolved, reader, ghosts>>

Kinds == {"mine", "else", "opFailed", "opExecuted"}
Nobody == "nobody"

(* One type invariant for the module. *)
TypeOK ==
    /\ op \in {"none", "pending", "placed", "executed", "failed"}
    /\ order \in {"none", "working", "done"} /\ names \in BOOLEAN
    /\ up \in BOOLEAN /\ registered \in BOOLEAN /\ wire \in Seq(Kinds) /\ lossy \in BOOLEAN
    /\ noise \in 0..MaxNoise /\ faults \in 0..MaxFaults
    /\ sub \in {"calling", "error", "pending", "placed", "executed", "failed"} /\ known \in BOOLEAN
    /\ spc \in {"ensure", "confirm", "parked"} /\ ready \in {"no", "ok", "err"}
    /\ started \in BOOLEAN /\ held \in BOOLEAN
    /\ replay \in Seq(Kinds) /\ Len(replay) <= Cap
    /\ listening \in BOOLEAN /\ stopped \in BOOLEAN /\ release \in {"no", "waiting", "done"}
    /\ dispatch \in [kind : Kinds \cup {Nobody}, listener : BOOLEAN, terminal : BOOLEAN]
    /\ pc \in {"idle", "replay", "submitted", "scan", "select", "returned"}
    /\ batch \in Seq(Kinds) /\ events \in Seq(Kinds)
    /\ wake \in BOOLEAN /\ recovery \in BOOLEAN /\ resolved \in BOOLEAN
    /\ verdict \in {"none", "executed", "failed", "error"}
    /\ rpc \in {"off", "wait", "ready", "get", "reply", "send", "park", "over"}
    /\ attempt \in 0..MaxReads /\ retry \in BOOLEAN
    /\ answer \in {"none", "working", "done", "failed", "error"}
    /\ result \in {"none", "working", "done", "failed", "error"}
    /\ due \in Int /\ unacked \in BOOLEAN

Silent == [kind |-> Nobody, listener |-> FALSE, terminal |-> FALSE]

Init ==
    /\ op = "none" /\ order = "none" /\ names \in BOOLEAN
    /\ up = TRUE /\ registered = FALSE /\ wire = <<>> /\ lossy = FALSE
    /\ noise = 0 /\ faults = 0
    /\ sub = "calling" /\ known = FALSE
    /\ spc = "ensure" /\ ready = "no" /\ started = FALSE /\ held = FALSE
    /\ replay = <<>> /\ listening = FALSE /\ stopped = FALSE /\ release = "no"
    /\ dispatch = Silent
    /\ pc = "idle" /\ batch = <<>> /\ events = <<>>
    /\ wake = FALSE /\ recovery = FALSE /\ resolved = FALSE /\ verdict = "none"
    /\ rpc = "off" /\ attempt = 0 /\ answer = "none" /\ result = "none" /\ retry = FALSE
    /\ due = 0 /\ unacked = FALSE

Fault == faults < MaxFaults /\ faults' = faults + 1 /\ UNCHANGED noise

-----------------------------------------------------------------------------
(* The server and the socket.                                              *)

(* The events of a change go to the socket that registered, or are lost. *)
Emits(s) ==
    \/ wire' = (IF registered THEN wire \o s ELSE wire) /\ UNCHANGED <<lossy, bounds>>
    \/ registered /\ Fault /\ lossy' = TRUE /\ UNCHANGED wire

Place ==
    /\ op = "pending" /\ order = "none"
    /\ op' = "placed" /\ order' = "working"
    /\ UNCHANGED <<names, socket, bounds, response, stream, wait, wake, recovery, resolved, reader,
                   ghosts>>

(* The order ends; the operation's outcome may be the execution. *)
Execute ==
    /\ \/ op = "placed" /\ order = "working" /\ op' = op /\ Emits(<<"mine">>)
       \/ op = "pending" /\ op' = "executed" /\ names /\ Emits(<<"mine", "opExecuted">>)
    /\ order' = "done"
    /\ UNCHANGED <<names, up, registered, response, stream, wait, wake, recovery, resolved, reader,
                   ghosts>>

Fails ==
    /\ op = "pending"
    /\ op' = "failed" /\ Emits(<<"opFailed">>)
    /\ UNCHANGED <<order, names, up, registered, response, stream, wait, wake, recovery, resolved,
                   reader, ghosts>>

Noise ==
    /\ registered /\ noise < MaxNoise
    /\ noise' = noise + 1 /\ wire' = Append(wire, "else")
    /\ UNCHANGED <<server, up, registered, lossy, faults, response, stream, wait, wake, recovery,
                   resolved, reader, ghosts>>

(* The server takes up the subscription of the types some owner holds. *)
Register ==
    /\ up /\ held /\ ~registered
    /\ registered' = TRUE
    /\ UNCHANGED <<server, up, wire, lossy, bounds, response, stream, wait, wake, recovery, resolved,
                   reader, ghosts>>

Drop ==
    /\ up /\ Fault
    /\ up' = FALSE /\ registered' = FALSE /\ wire' = <<>> /\ lossy' = FALSE
    /\ UNCHANGED <<server, response, stream, wait, wake, recovery, resolved, reader, ghosts>>

Waiting == pc \notin {"idle", "returned"}

(* Mutant of Recovers: a gap is not passed on to the wait. *)
MutRecovers == UNCHANGED recovery

(* onExecutionGap: a noticed gap or an authentication. *)
Recovers == recovery' = (recovery \/ Waiting)

Gap ==
    /\ up /\ lossy
    /\ lossy' = FALSE /\ Recovers
    /\ UNCHANGED <<server, up, registered, wire, bounds, response, stream, wait, wake, resolved,
                   reader, ghosts>>

Authenticated ==
    /\ ~up
    /\ up' = TRUE /\ Recovers
    /\ UNCHANGED <<server, registered, wire, lossy, bounds, response, stream, wait, wake, resolved,
                   reader, ghosts>>

-----------------------------------------------------------------------------
(* The order stream.                                                       *)

(* s.stop: the release waits for s.ready. *)
Stop ==
    /\ stopped' = TRUE
    /\ release' = IF release = "no" THEN "waiting" ELSE release

KeepGoing == UNCHANGED <<stopped, release>>

(* ensureReady, then the subscription of the types. *)
Ensure ==
    /\ spc = "ensure"
    /\ \/ /\ started' = TRUE /\ held' = TRUE /\ spc' = "confirm"
          /\ UNCHANGED <<ready, bounds>>
       \/ /\ (stopped /\ UNCHANGED bounds) \/ Fault
          /\ ready' = "err" /\ spc' = "parked"
          /\ UNCHANGED <<started, held>>
    /\ UNCHANGED <<server, socket, response, replay, listening, stopped, release, dispatch, wait,
                   wake, recovery, resolved, reader, ghosts>>

(* confirmEventTypes: the acknowledgement, or the end of the context. *)
Confirm ==
    /\ spc = "confirm"
    /\ \/ registered /\ ready' = "ok" /\ UNCHANGED bounds
       \/ stopped /\ ready' = "err" /\ UNCHANGED bounds
       \/ Fault /\ ready' = "err"
    /\ spc' = "parked"
    /\ UNCHANGED <<server, socket, response, started, held, replay, listening, stopped, release,
                   dispatch, wait, wake, recovery, resolved, reader, ghosts>>

(* The context the order was placed with ends; it is to outlive the wait   *)
(* (OrderHandleFor).                                                       *)
ContextEnds ==
    /\ ~stopped /\ ~Waiting /\ Fault
    /\ Stop
    /\ UNCHANGED <<server, socket, response, spc, ready, started, held, replay, listening, dispatch,
                   wait, wake, recovery, resolved, reader, ghosts>>

(* Mutant of MayRelease: stop does not wait for s.ready. *)
MutMayRelease == TRUE

MayRelease == ready # "no"

(* stop's goroutine gives the types up, if they were taken. *)
ReleaseTypes ==
    /\ release = "waiting" /\ MayRelease
    /\ release' = "done"
    /\ held' = (held /\ ~started)
    /\ registered' = (registered /\ ~started)
    /\ wire' = IF started THEN <<>> ELSE wire
    /\ lossy' = (lossy /\ ~started)
    /\ UNCHANGED <<server, up, bounds, response, spc, ready, started, replay, listening, stopped,
                   dispatch, wait, wake, recovery, resolved, reader, ghosts>>

(* Terminal, by what the stream knows of its order and its operation. *)
Ends(kind) ==
    \/ kind = "mine" /\ known
    \/ kind \in {"opFailed", "opExecuted"} /\ sub # "calling"

Kept(kind) ==
    LET s == Append(replay, kind) IN IF Len(s) > Cap THEN Tail(s) ELSE s

(* receive, up to its unlock: an event is captured with its listeners. *)
Receive ==
    /\ wire # <<>> /\ dispatch = Silent
    /\ wire' = Tail(wire)
    /\ IF stopped
       THEN UNCHANGED <<replay, dispatch, due>>
       ELSE /\ replay' = Kept(Head(wire))
            /\ dispatch' = [kind |-> Head(wire), listener |-> listening, terminal |-> Ends(Head(wire))]
            /\ due' = IF listening THEN due + 1 ELSE due
    /\ UNCHANGED <<server, up, registered, lossy, bounds, response, spc, ready, started, held,
                   listening, stopped, release, wait, wake, recovery, resolved, reader, unacked>>

(* The wait's handler. *)
Handles(s) ==
    /\ events' = events \o s
    /\ wake' = (wake \/ s # <<>>)
    /\ due' = due - Len(s)

(* receive, after its unlock. *)
Dispatch ==
    /\ dispatch # Silent
    /\ dispatch' = Silent
    /\ IF dispatch.listener /\ pc # "returned"
       THEN Handles(<<dispatch.kind>>)
       ELSE UNCHANGED <<events, wake, due>>
    /\ IF dispatch.terminal THEN Stop ELSE KeepGoing
    /\ UNCHANGED <<server, socket, bounds, response, spc, ready, started, held, replay, listening, pc,
                   batch, verdict, recovery, resolved, reader, unacked>>

(* Mutant of Rechecked: what was captured before the response is forgotten. *)
MutRechecked(ids) == FALSE

(* submitted looks at what was captured before the response came. *)
Rechecked(ids) ==
    \E i \in 1..Len(replay) :
       replay[i] \in {"opFailed", "opExecuted"} \/ (replay[i] = "mine" /\ ids)

(* The request is answered, with the operation as it is by then. *)
Answered ==
    /\ sub = "calling"
    /\ \/ op # "none" /\ UNCHANGED <<op, order>>
       \/ op = "none" /\ op' \in {"pending", "failed"} /\ UNCHANGED order
       \/ op = "none" /\ op' = "placed" /\ order' = "working"
       \/ op = "none" /\ op' = "executed" /\ names /\ order' = "done"
    /\ sub' = op'
    /\ known' = (names /\ op' \in {"placed", "executed"})
    /\ IF op' \in {"executed", "failed"} \/ Rechecked(known') THEN Stop ELSE KeepGoing
    /\ UNCHANGED <<names, socket, bounds, spc, ready, started, held, replay, listening, dispatch,
                   wait, wake, recovery, resolved, reader, ghosts>>

(* The server creates the operation before the answer is there. *)
Create ==
    /\ sub = "calling" /\ op = "none"
    /\ op' = "pending"
    /\ UNCHANGED <<order, names, socket, bounds, response, stream, wait, wake, recovery, resolved,
                   reader, ghosts>>

SubmitFails ==
    /\ sub = "calling" /\ Fault
    /\ sub' = "error" /\ Stop
    /\ UNCHANGED <<server, socket, known, spc, ready, started, held, replay, listening, dispatch,
                   wait, wake, recovery, resolved, reader, ghosts>>

-----------------------------------------------------------------------------
(* waitExecutionEvidence.                                                  *)

(* Mutant of Batch: subscribe hands nothing over. *)
MutBatch == <<>>

(* subscribe registers and copies the replay in one critical section. *)
Batch == replay

Listen ==
    /\ pc = "idle"
    /\ pc' = "replay" /\ listening' = TRUE /\ batch' = Batch
    /\ due' = Len(replay)
    /\ UNCHANGED <<server, socket, bounds, response, spc, ready, started, held, replay, stopped,
                   release, dispatch, events, wake, recovery, resolved, verdict, reader,
                   unacked>>

Replayed ==
    /\ pc = "replay"
    /\ Handles(batch)
    /\ batch' = <<>> /\ pc' = "submitted"
    /\ UNCHANGED <<server, socket, bounds, response, stream, verdict, recovery, resolved, reader,
                   unacked>>

(* The wait ends with v; a receipt, and a failure the snapshot found,      *)
(* release the stream. The reading goroutine's context ends with it.       *)
Return(v, releases) ==
    /\ pc' = "returned" /\ verdict' = v
    /\ batch' = <<>> /\ events' = <<>> /\ wake' = FALSE /\ recovery' = FALSE
    /\ listening' = FALSE
    /\ rpc' = "over" /\ result' = "none" /\ answer' = "none" /\ retry' = FALSE
    /\ IF releases THEN Stop ELSE KeepGoing
    /\ UNCHANGED <<resolved, attempt>>

(* The top of the loop: the events so far become a batch. *)
TakeEvents == batch' = events /\ events' = <<>> /\ pc' = "scan"

untouched == <<server, socket, bounds, response, spc, ready, started, held, replay, dispatch, ghosts>>

Submitted ==
    /\ pc = "submitted" /\ sub # "calling"
    /\ \/ sub = "error" /\ Return("error", FALSE)
       \/ sub = "failed" /\ Return("failed", FALSE)
       \/ sub = "executed" /\ Return("executed", TRUE)
       \/ /\ sub \in {"pending", "placed"}
          /\ resolved' = known
          /\ rpc' = IF known THEN "ready" ELSE "wait"
          /\ TakeEvents
          /\ UNCHANGED <<wake, recovery, verdict, attempt, answer, result, retry,
                         listening, stopped, release>>
    /\ UNCHANGED untouched

(* Mutant of Mine: any terminal update of the account is taken for the     *)
(* order's.                                                                *)
MutMine(kind) == kind \in {"mine", "else"}

(* The update carries the order's id. *)
Mine(kind) == kind = "mine"

(* An update of the account that came before the order's id is kept. *)
Early(kind) == kind \in {"mine", "else"} /\ ~resolved

Scan ==
    /\ pc = "scan" /\ batch # <<>>
    /\ LET e == Head(batch)
       IN  \/ e = "opFailed" /\ Return("failed", FALSE)
           \/ e = "opExecuted" /\ Return("executed", TRUE)
           \/ Mine(e) /\ resolved /\ Return("executed", TRUE)
           \/ /\ e \in {"mine", "else"} /\ ~(Mine(e) /\ resolved)
              /\ events' = IF Early(e) /\ Len(events) < EarlyCap THEN Append(events, e) ELSE events
              /\ batch' = Tail(batch)
              /\ UNCHANGED <<pc, listening, stopped, release, wake, recovery, resolved, verdict,
                             reader>>
    /\ UNCHANGED untouched

Scanned ==
    /\ pc = "scan" /\ batch = <<>>
    /\ pc' = "select"
    /\ UNCHANGED <<untouched, listening, stopped, release, batch, events, wake, recovery, resolved,
                   verdict, reader>>

Woken ==
    /\ pc = "select" /\ wake
    /\ wake' = FALSE /\ TakeEvents
    /\ UNCHANGED <<untouched, listening, stopped, release, recovery, resolved, verdict, reader>>

TakeSnapshot ==
    /\ pc = "select" /\ result # "none"
    /\ \/ result = "failed" /\ Return("failed", TRUE)
       \/ result = "done" /\ Return("executed", TRUE)
       \/ /\ result \in {"working", "error"}
          /\ result' = "none" /\ TakeEvents
          /\ UNCHANGED <<wake, recovery, resolved, verdict, rpc, attempt, answer, retry,
                         listening, stopped, release>>
    /\ UNCHANGED untouched

(* The caller's context ends. *)
Deadline ==
    /\ pc \in {"submitted", "select"}
    /\ Return("error", FALSE)
    /\ UNCHANGED untouched

-----------------------------------------------------------------------------
(* The reading goroutine.                                                  *)

Sends(v) == answer' = v /\ rpc' = "send"

(* Mutant of Identified: nobody is woken for the updates kept. *)
MutIdentified == resolved' = TRUE /\ UNCHANGED wake

(* resolvedIdentity.Store, and a wake-up for the updates kept. *)
Identified == resolved' = TRUE /\ wake' = TRUE

(* h.Wait and resolveOrderID, when the response had no order id. *)
SettledWait ==
    /\ rpc = "wait"
    /\ \/ op = "failed" /\ Sends("failed") /\ UNCHANGED <<resolved, wake, bounds>>
       \/ op = "executed" /\ Sends("done") /\ UNCHANGED <<resolved, wake, bounds>>
       \/ op = "placed" /\ names /\ rpc' = "ready" /\ Identified /\ UNCHANGED <<answer, bounds>>
       \/ op = "placed" /\ ~names /\ rpc' = "ready" /\ UNCHANGED <<answer, resolved, wake, bounds>>
       \/ Fault /\ Sends("error") /\ UNCHANGED <<resolved, wake>>
    /\ attempt' = IF rpc' = "send" THEN MaxReads - 1 ELSE attempt
    /\ UNCHANGED <<server, socket, response, stream, wait, recovery, result, retry, ghosts>>

(* awaitExecutionReady for the first read; the gaps so far are covered by  *)
(* it, as the read comes after the acknowledgement. s.ready is closed      *)
(* once: the acknowledgement may be of a connection that is gone.          *)
AwaitReady ==
    /\ rpc = "ready" /\ attempt = 0 /\ ready # "no"
    /\ recovery' = FALSE
    /\ unacked' = (ready = "ok" /\ ~registered)
    /\ IF ready = "ok" THEN rpc' = "get" /\ UNCHANGED answer ELSE Sends("error")
    /\ UNCHANGED <<server, socket, bounds, response, stream, wait, wake, resolved, attempt, result,
                   retry, due>>

(* recoverExecutionReady for the others: types taken, acknowledged and     *)
(* given up again.                                                         *)
RecoverReady ==
    /\ rpc = "ready" /\ attempt > 0
    /\ \/ up /\ (held => registered) /\ rpc' = "get" /\ UNCHANGED <<answer, bounds>>
       \/ Fault /\ Sends("error")
    /\ UNCHANGED <<server, socket, response, stream, wait, wake, recovery, resolved, attempt, result,
                   retry, ghosts>>

(* The server serves getOrder. *)
Serve ==
    /\ rpc = "get"
    /\ \/ order # "none" /\ answer' = order /\ rpc' = "reply" /\ UNCHANGED bounds
       \/ Fault /\ Sends("error")
    /\ UNCHANGED <<server, socket, response, stream, wait, wake, recovery, resolved, attempt, result,
                   retry, ghosts>>

Reply ==
    /\ rpc = "reply"
    /\ rpc' = "send"
    /\ IF ~resolved THEN Identified ELSE UNCHANGED <<resolved, wake>>
    /\ UNCHANGED <<server, socket, bounds, response, stream, wait, recovery, attempt, answer, result,
                   retry, ghosts>>

SendSnapshot ==
    /\ rpc = "send" /\ result = "none"
    /\ result' = answer /\ answer' = "none"
    /\ retry' = (answer = "error")
    /\ attempt' = attempt + 1
    /\ rpc' = IF attempt + 1 < MaxReads THEN "park" ELSE "over"
    /\ UNCHANGED <<server, socket, bounds, response, stream, wait, wake, recovery, resolved, ghosts>>

(* A gap, an authentication or the timer of a failed read. *)
ReadAgain ==
    /\ rpc = "park"
    /\ \/ recovery /\ recovery' = FALSE
       \/ retry /\ UNCHANGED recovery
    /\ retry' = FALSE /\ rpc' = "ready"
    /\ UNCHANGED <<server, socket, bounds, response, stream, wait, wake, resolved, attempt, answer,
                   result, ghosts>>

Next ==
    \/ Place \/ Execute \/ Fails \/ Noise \/ Register \/ Drop \/ Gap \/ Authenticated
    \/ Ensure \/ Confirm \/ ContextEnds \/ ReleaseTypes \/ Receive \/ Dispatch
    \/ Answered \/ Create \/ SubmitFails
    \/ Listen \/ Replayed \/ Submitted \/ Scan \/ Scanned \/ Woken \/ TakeSnapshot \/ Deadline
    \/ SettledWait \/ AwaitReady \/ RecoverReady \/ Serve \/ Reply \/ SendSnapshot \/ ReadAgain

(* The stream has no subscription, and captured no end before that. *)
Deaf == ~held /\ \A i \in 1..Len(replay) : replay[i] = "else"

(* A step of the wait, and of its reading goroutine. *)
WaitStep == Replayed \/ Submitted \/ Scan \/ Scanned \/ Woken \/ TakeSnapshot
ReadStep ==
    SettledWait \/ AwaitReady \/ RecoverReady \/ Serve \/ Reply \/ SendSnapshot \/ ReadAgain

-----------------------------------------------------------------------------
(* A receipt is proof of execution and a failure of failure: no verdict    *)
(* comes from another order of the account, from a working partial fill,   *)
(* or from an answer that outlived what it was about.                      *)
VerdictIsTrue ==
    /\ verdict = "executed" => order = "done"
    /\ verdict = "failed" => op = "failed"

(* subscribe and receive lose and repeat nothing between them: what was    *)
(* captured when the wait subscribed and what is captured after it reach   *)
(* it once each.                                                           *)
HeardOnce ==
    Waiting =>
       due = (IF pc = "replay" THEN Len(batch) ELSE 0) + (IF dispatch.listener THEN 1 ELSE 0)

(* No wake-up is lost: an update of the order that was kept for its id is  *)
(* not left once the id is known, nor is any other evidence.               *)
Evidence(s) ==
    \E i \in 1..Len(s) : s[i] \in {"opFailed", "opExecuted"} \/ (s[i] = "mine" /\ resolved)

Woke == pc = "select" /\ Evidence(events) => wake

(* Once the stream has given its types up they stay given up, even if it   *)
(* was stopped before it took them.                                        *)
NothingHeld == release = "done" => ~held

(* A stream whose capture holds the end of its order or operation does not *)
(* go on, whichever came first, the event or the response: a handle nobody *)
(* observes releases its subscription, too.                                *)
EndsUnobserved ==
    sub # "calling" /\ dispatch = Silent =>
       \A i \in 1..Len(replay) :
          replay[i] \in {"opFailed", "opExecuted"} \/ (replay[i] = "mine" /\ known) => stopped
=============================================================================
