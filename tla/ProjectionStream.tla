-------------------------- MODULE ProjectionStream --------------------------
(***************************************************************************)
(* WatchProjection (streams.go): the rows of a projection for a scope that *)
(* can be changed, kept by a watch on the server that lives as long as the *)
(* connection it was created on. A new connection starts recreate, which   *)
(* makes a new watch until one succeeds; a gap starts resync, which reads  *)
(* the scope again under the same watch; setScope changes it. Pushed       *)
(* frames change single rows. AggregationWatchStream re-creates its watch  *)
(* in the same way, but has none of the rest: it does not try again, and   *)
(* it leaves behind the watch of an attempt that Close met, before the     *)
(* look at IsClosed or between that look and the store of the new id.      *)
(*                                                                         *)
(* The rows are the scope they were read for, and so is their market. A    *)
(* request is served by the server in one step and answered in a later     *)
(* one; it may fail after the server did it, which leaves a watch nobody   *)
(* knows (orphans). Three history variables, which no action reads, say    *)
(* what becomes of the rows. missing has the snapshots that lack a frame   *)
(* that was lost after they were read: the rows that are held, and the     *)
(* replies on their way. skipped has those of them whose gap came when     *)
(* nothing was going to read again, and resync passed it over. behind: the *)
(* rows are not those of the present scope, because setScope failed or     *)
(* because recreate had read the scope before setScope changed it.         *)
(***************************************************************************)
EXTENDS Naturals, FiniteSets

CONSTANTS
    Scopes,      \* path sets and prefixes
    First,       \* the scope the stream is opened with
    MaxConns,    \* bound: connections
    MaxWatches,  \* bound: watches created
    MaxScopes,   \* bound: calls of SetPaths and SetPrefix
    MaxFaults    \* bound: gaps and failed requests

VARIABLES
    kind,        \* which of the two streams it is
    conn, up,    \* the current connection, and whether it is authenticated
    watches,     \* what the server has: [id, conn, scope]
    orphans,     \* the ids of watches whose request was taken to have failed
    used,        \* ids given so far
    triggers,    \* goroutines that are about to run recreate
    gaps,        \* goroutines that are about to run resync
    watchID, paths, rows, markets, stopped, recreating, redo, resyncing, resyncAgain,
    interest,    \* the markets the stream holds mids for
    state,       \* the stream's WatchState
    renderCh, renderConnect,
    rpc, rreply, \* where recreate is, and the reply it has
    upc, ureply, \* where setScope is; it holds scopeMu when not idle
    ypc, yreply, \* where resync is; it holds scopeMu in its reread
    mine,        \* resync runs recreate itself
    calls, faults, behind, missing, skipped

net == <<kind, conn, up>>
server == <<watches, orphans, used>>
held == <<watchID, rows>>
shown == <<behind, missing, skipped>>
count == <<calls, faults, shown>>
life == <<state, renderCh, renderConnect>>
vars == <<net, server, triggers, gaps, held, paths, markets, interest, stopped, recreating, redo,
          resyncing, resyncAgain, life, rpc, rreply, upc, ureply, ypc, yreply, mine, count>>

Ids == 1..MaxWatches
Reply == [id : 0..MaxWatches, rows : Scopes]
NoReply == [id |-> 0, rows |-> First]
Answers == {"rows", "create", "scope", "reread"}

(* One type invariant for the module. *)
TypeOK ==
    /\ kind \in {"projection", "aggregation"}
    /\ conn \in 1..MaxConns /\ up \in BOOLEAN
    /\ watches \in SUBSET [id : Ids, conn : 1..MaxConns, scope : Scopes]
    /\ orphans \in SUBSET Ids /\ used \in 0..MaxWatches
    /\ triggers \in Nat /\ gaps \in Nat
    /\ watchID \in Ids /\ paths \in Scopes /\ rows \in Scopes
    /\ markets \in SUBSET Scopes /\ interest \in SUBSET Scopes
    /\ stopped \in BOOLEAN /\ recreating \in BOOLEAN /\ redo \in BOOLEAN
    /\ resyncing \in BOOLEAN /\ resyncAgain \in BOOLEAN
    /\ state \in {"connected", "reconnecting"}
    /\ renderCh \in BOOLEAN /\ renderConnect \in BOOLEAN
    /\ rpc \in {"idle", "read", "ask", "reply", "store", "markets", "ended", "backoff"}
    /\ rreply \in Reply
    /\ upc \in {"idle", "ask", "reply", "markets"} /\ ureply \in Reply
    /\ ypc \in {"idle", "lock", "ask", "reply", "markets", "failed", "join", "ended"}
    /\ yreply \in Reply
    /\ mine \in BOOLEAN /\ calls \in 0..MaxScopes /\ faults \in 0..MaxFaults
    /\ behind \in BOOLEAN /\ missing \in SUBSET Answers /\ skipped \in SUBSET Answers

(* The stream as WatchProjection returns it. *)
Init ==
    /\ kind \in {"projection", "aggregation"}
    /\ conn = 1 /\ up = TRUE
    /\ watches = {[id |-> 1, conn |-> 1, scope |-> First]}
    /\ orphans = {} /\ used = 1 /\ triggers = 0 /\ gaps = 0
    /\ watchID = 1 /\ paths = First /\ rows = First
    /\ markets = IF kind = "projection" THEN {First} ELSE {}
    /\ interest = markets
    /\ stopped = FALSE /\ recreating = FALSE /\ redo = FALSE
    /\ resyncing = FALSE /\ resyncAgain = FALSE
    /\ state = "connected" /\ renderCh = FALSE /\ renderConnect = FALSE
    /\ rpc = "idle" /\ rreply = NoReply /\ upc = "idle" /\ ureply = NoReply
    /\ ypc = "idle" /\ yreply = NoReply /\ mine = FALSE
    /\ calls = 0 /\ faults = 0 /\ behind = FALSE /\ missing = {} /\ skipped = {}

Fault == faults < MaxFaults /\ faults' = faults + 1

-----------------------------------------------------------------------------
(* The connection and the server.                                          *)

(* The snapshots the server has given so far. *)
Snapshots ==
    {"rows"} \cup (IF rpc = "reply" THEN {"create"} ELSE {})
             \cup (IF upc = "reply" THEN {"scope"} ELSE {})
             \cup (IF ypc = "reply" THEN {"reread"} ELSE {})

(* A frame was lost, as the next message shows: OnGap. *)
Gap ==
    /\ kind = "projection"
    /\ up /\ ~stopped /\ Fault
    /\ gaps' = gaps + 1
    /\ missing' = missing \cup Snapshots
    /\ UNCHANGED <<net, server, triggers, held, paths, markets, interest, stopped, recreating, redo,
                   resyncing, resyncAgain, life, rpc, rreply, upc, ureply, ypc, yreply, mine, calls,
                   behind, skipped>>

(* The socket goes, and its watches with it; OnStatus. *)
Disconnected ==
    /\ up /\ conn < MaxConns
    /\ up' = FALSE /\ watches' = {}
    /\ state' = IF stopped \/ kind = "aggregation" THEN state ELSE "reconnecting"
    /\ UNCHANGED <<kind, conn, orphans, used, triggers, gaps, held, paths, markets, interest,
                   stopped, recreating, redo, resyncing, resyncAgain, renderCh, renderConnect, rpc,
                   rreply, upc, ureply, ypc, yreply, mine, count>>

(* OnAuthenticated, or OnRotated, which comes without a disconnect. *)
NewConnection ==
    /\ conn < MaxConns
    /\ conn' = conn + 1
    /\ up' = TRUE /\ watches' = {}
    /\ triggers' = IF stopped THEN triggers ELSE triggers + 1
    /\ UNCHANGED <<kind, orphans, used, gaps, held, paths, markets, interest, stopped, recreating,
                   redo, resyncing, resyncAgain, life, rpc, rreply, upc, ureply, ypc, yreply, mine,
                   count>>

Destroy(ids) == watches' = {w \in watches : w.id \notin ids}

(* The server reads the rows for an answer, which lacks nothing yet. *)
Snapshot(answer) == missing' = missing \ {answer} /\ skipped' = skipped \ {answer}

(* The rows of an answer take the place of those that are held. *)
Shown(answer) ==
    /\ missing' = IF answer \in missing THEN missing \cup {"rows"} ELSE missing \ {"rows"}
    /\ skipped' = IF answer \in skipped THEN skipped \cup {"rows"} ELSE skipped \ {"rows"}

-----------------------------------------------------------------------------
(* Frames, markets and rendering.                                          *)

RequestRender(connect) ==
    /\ renderConnect' = (renderConnect \/ connect)
    /\ renderCh' = TRUE

(* Mutant of Wanted: a stopped stream still takes its markets. *)
MutWanted == {rows}

(* The markets of the rows that are held, for a stream that is not stopped.*)
Wanted == IF stopped \/ kind = "aggregation" THEN interest ELSE {rows}

(* syncMarkets, under marketsMu. *)
SyncMarkets ==
    /\ markets' = Wanted
    /\ interest' = Wanted

(* onFrame: a frame of the stream's own watch changes rows. *)
OnFrame ==
    /\ kind = "projection"
    /\ up /\ ~stopped
    /\ \E w \in watches : w.id = watchID
    /\ RequestRender(TRUE)
    /\ UNCHANGED <<net, server, triggers, gaps, held, paths, markets, interest, stopped, recreating,
                   redo, resyncing, resyncAgain, state, rpc, rreply, upc, ureply, ypc, yreply, mine,
                   count>>

(* onMids: held rows at new prices, which are no fresh data. *)
OnMids ==
    /\ kind = "projection" /\ ~stopped /\ ~renderCh
    /\ RequestRender(FALSE)
    /\ UNCHANGED <<net, server, triggers, gaps, held, paths, markets, interest, stopped, recreating,
                   redo, resyncing, resyncAgain, state, rpc, rreply, upc, ureply, ypc, yreply, mine,
                   count>>

Connects == renderConnect /\ ~recreating

(* renderLoop publishes the view. *)
Render ==
    /\ renderCh /\ ~stopped
    /\ renderCh' = FALSE /\ renderConnect' = FALSE
    /\ state' = IF Connects THEN "connected" ELSE state
    /\ UNCHANGED <<net, server, triggers, gaps, held, paths, markets, interest, stopped, recreating,
                   redo, resyncing, resyncAgain, rpc, rreply, upc, ureply, ypc, yreply, mine, count>>

-----------------------------------------------------------------------------
(* recreate.                                                               *)

(* Mutant of Again: a trigger during an attempt is taken to be served. *)
MutAgain == UNCHANGED redo

Again == redo' = TRUE

(* One runs at a time. *)
StartRecreate ==
    IF stopped THEN UNCHANGED <<recreating, redo, rpc>>
    ELSE IF recreating THEN Again /\ UNCHANGED <<recreating, rpc>>
    ELSE recreating' = TRUE /\ rpc' = "read" /\ UNCHANGED redo

Recreate ==
    /\ triggers > 0
    /\ triggers' = triggers - 1
    /\ StartRecreate
    /\ UNCHANGED <<net, server, gaps, held, paths, markets, interest, stopped, resyncing, resyncAgain,
                   life, rreply, upc, ureply, ypc, yreply, mine, count>>

(* recreateOnce reads the scope there is... *)
ReadScope ==
    /\ rpc = "read" /\ ~stopped
    /\ rreply' = [id |-> 0, rows |-> paths]
    /\ rpc' = "ask"
    /\ UNCHANGED <<net, server, triggers, gaps, held, paths, markets, interest, stopped, recreating,
                   redo, resyncing, resyncAgain, life, upc, ureply, ypc, yreply, mine, count>>

(* ...and the server makes a watch for it. *)
CreateWatch ==
    /\ rpc = "ask" /\ up /\ used < MaxWatches
    /\ used' = used + 1
    /\ watches' = watches \cup {[id |-> used + 1, conn |-> conn, scope |-> rreply.rows]}
    /\ rreply' = [rreply EXCEPT !.id = used + 1]
    /\ rpc' = "reply" /\ Snapshot("create")
    /\ UNCHANGED <<net, orphans, triggers, gaps, held, paths, markets, interest, stopped,
                   recreating, redo, resyncing, resyncAgain, life, upc, ureply, ypc, yreply, mine,
                   calls, faults, behind>>

(* An attempt that fails: the answer is lost, with the watch the server    *)
(* may have made, or fetchAll fails and the new watch is given up.         *)
AttemptFails ==
    /\ rpc \in {"ask", "reply"}
    /\ \/ Fault /\ UNCHANGED <<calls, shown>>
       \/ ~up /\ UNCHANGED count
    /\ \/ orphans' = orphans \cup ({rreply.id} \ {0}) /\ UNCHANGED watches
       \/ kind = "projection" /\ rpc = "reply" /\ Destroy({rreply.id}) /\ UNCHANGED orphans
    /\ rreply' = NoReply
    /\ UNCHANGED <<net, used, triggers, gaps, held, paths, markets, interest, stopped,
                   recreating, redo, resyncing, resyncAgain, renderCh, renderConnect, upc, ureply, ypc,
                   yreply, mine>>

(* recreateUntilDone backs off and tries again; an aggregation does not. *)
CreateFails ==
    /\ kind = "projection" /\ AttemptFails
    /\ rpc' = "backoff"
    /\ state' = IF stopped THEN state ELSE "reconnecting"

CreateGivenUp ==
    /\ kind = "aggregation" /\ AttemptFails
    /\ rpc' = "ended"
    /\ UNCHANGED state

Backoff ==
    /\ rpc = "backoff" /\ ~stopped
    /\ rpc' = "read"
    /\ UNCHANGED <<net, server, triggers, gaps, held, paths, markets, interest, stopped, recreating,
                   redo, resyncing, resyncAgain, life, rreply, upc, ureply, ypc, yreply, mine, count>>

(* The new watch takes the place of the old one, or goes itself when the   *)
(* stream was closed meanwhile; a projection looks and stores under mu.    *)
Recreated ==
    /\ kind = "projection" /\ rpc = "reply"
    /\ Destroy({IF stopped THEN rreply.id ELSE watchID})
    /\ IF stopped THEN UNCHANGED <<held, shown>>
       ELSE /\ watchID' = rreply.id /\ rows' = rreply.rows
            /\ behind' = (rreply.rows # paths) /\ Shown("create")
    /\ rreply' = NoReply
    /\ rpc' = "markets"
    /\ UNCHANGED <<net, orphans, used, triggers, gaps, paths, markets, interest, stopped,
                   recreating, redo, resyncing, resyncAgain, life, upc, ureply, ypc, yreply, mine,
                   calls, faults>>

(* An aggregation looks at IsClosed first, and leaves the new watch...     *)
LookClosed ==
    /\ kind = "aggregation" /\ rpc = "reply"
    /\ rpc' = IF stopped THEN "ended" ELSE "store"
    /\ orphans' = IF stopped THEN orphans \cup {rreply.id} ELSE orphans
    /\ rreply' = IF stopped THEN NoReply ELSE rreply
    /\ UNCHANGED <<net, watches, used, triggers, gaps, held, paths, markets, interest, stopped,
                   recreating, redo, resyncing, resyncAgain, life, upc, ureply, ypc, yreply, mine,
                   count>>

(* ...and then stores the new id, whether Close came in between or not.    *)
StoreId ==
    /\ rpc = "store"
    /\ watchID' = rreply.id /\ Destroy({watchID})
    /\ orphans' = IF stopped THEN orphans \cup {rreply.id} ELSE orphans
    /\ rreply' = NoReply
    /\ rpc' = "ended"
    /\ UNCHANGED <<net, used, triggers, gaps, rows, paths, markets, interest, stopped, recreating,
                   redo, resyncing, resyncAgain, life, upc, ureply, ypc, yreply, mine, count>>

RecreatedMarkets ==
    /\ rpc = "markets"
    /\ SyncMarkets
    /\ rpc' = "ended"
    /\ UNCHANGED <<net, server, triggers, gaps, held, paths, stopped, recreating, redo, resyncing,
                   resyncAgain, life, rreply, upc, ureply, ypc, yreply, mine, count>>

(* The stream was closed while recreate was trying. *)
RecreateStopped ==
    /\ rpc \in {"read", "backoff"} /\ stopped
    /\ rpc' = "ended"
    /\ UNCHANGED <<net, server, triggers, gaps, held, paths, markets, interest, stopped, recreating,
                   redo, resyncing, resyncAgain, life, rreply, upc, ureply, ypc, yreply, mine, count>>

(* A trigger that came meanwhile is honoured; else the rows are shown. *)
EndRecreate ==
    /\ rpc = "ended"
    /\ redo' = FALSE
    /\ recreating' = (redo /\ ~stopped)
    /\ rpc' = IF redo /\ ~stopped THEN "read" ELSE "idle"
    /\ IF recreating' \/ kind = "aggregation" THEN UNCHANGED <<renderCh, renderConnect>> ELSE RequestRender(TRUE)
    /\ UNCHANGED <<net, server, triggers, gaps, held, paths, markets, interest, stopped, resyncing,
                   resyncAgain, state, rreply, upc, ureply, ypc, yreply, mine, count>>

-----------------------------------------------------------------------------
(* setScope and resync, one at a time under scopeMu.                       *)

(* Mutant of ScopeFree: a reread does not hold scopeMu. *)
MutScopeFree == upc = "idle"

ScopeFree == upc = "idle" /\ ypc \notin {"ask", "reply", "markets"}

(* updateProjectionWatch: the watch keeps its id and takes the scope. *)
Update(id, scope) ==
    /\ \E w \in watches : w.id = id
    /\ watches' = {IF w.id = id THEN [w EXCEPT !.scope = scope] ELSE w : w \in watches}

(* Mutant of ReplaceRows: rows of a watch that was replaced come back. *)
MutReplaceRows(reply, answer) ==
    rows' = reply.rows /\ behind' = FALSE /\ Shown(answer) /\ RequestRender(TRUE)

(* replaceRows: unless the watch they were read under has been replaced. *)
ReplaceRows(reply, answer) ==
    IF stopped \/ watchID # reply.id
    THEN UNCHANGED <<rows, shown, renderCh, renderConnect>>
    ELSE rows' = reply.rows /\ behind' = FALSE /\ Shown(answer) /\ RequestRender(TRUE)

SetScope(scope) ==
    /\ kind = "projection"
    /\ ScopeFree /\ ~stopped /\ calls < MaxScopes
    /\ calls' = calls + 1
    /\ paths' = scope
    /\ upc' = "ask"
    /\ ureply' = [NoReply EXCEPT !.id = watchID]
    /\ UNCHANGED <<net, server, triggers, gaps, held, markets, interest, stopped, recreating, redo,
                   resyncing, resyncAgain, life, rpc, rreply, ypc, yreply, mine, faults, shown>>

SetScopeServed ==
    /\ upc = "ask" /\ up
    /\ Update(ureply.id, paths)
    /\ ureply' = [ureply EXCEPT !.rows = paths]
    /\ upc' = "reply" /\ Snapshot("scope")
    /\ UNCHANGED <<net, orphans, used, triggers, gaps, held, paths, markets, interest, stopped,
                   recreating, redo, resyncing, resyncAgain, life, rpc, rreply, ypc, yreply, mine,
                   calls, faults, behind>>

(* The watch is gone, or the request fails: setScope returns the error. *)
SetScopeFails ==
    /\ \/ upc = "ask" /\ (~up \/ \A w \in watches : w.id # ureply.id) /\ UNCHANGED faults
       \/ upc \in {"ask", "reply"} /\ Fault
    /\ upc' = "idle" /\ ureply' = NoReply
    /\ behind' = (behind \/ watchID = ureply.id)
    /\ UNCHANGED <<net, server, triggers, gaps, held, paths, markets, interest, stopped, recreating,
                   redo, resyncing, resyncAgain, life, rpc, rreply, ypc, yreply, mine, calls,
                   missing, skipped>>

SetScopeReply ==
    /\ upc = "reply"
    /\ ReplaceRows(ureply, "scope")
    /\ upc' = "markets" /\ ureply' = NoReply
    /\ UNCHANGED <<net, server, triggers, gaps, watchID, paths, markets, interest, stopped,
                   recreating, redo, resyncing, resyncAgain, state, rpc, rreply, ypc, yreply,
                   mine, calls, faults>>

SetScopeMarkets ==
    /\ upc = "markets"
    /\ SyncMarkets
    /\ upc' = "idle"
    /\ UNCHANGED <<net, server, triggers, gaps, held, paths, stopped, recreating, redo, resyncing,
                   resyncAgain, life, rpc, rreply, ureply, ypc, yreply, mine, count>>

(* Nothing is going to read the rows again: recreate has its answer, or    *)
(* has ended and its rows have not been rendered; resync has looked at     *)
(* resyncAgain for the last time and has not yet cleared resyncing.        *)
NoReadAhead ==
    \/ recreating /\ rpc \in {"reply", "markets", "ended"} /\ ~redo
    \/ ~recreating /\ state # "connected" /\ up /\ triggers = 0
    \/ ypc = "ended" \/ (ypc = "join" /\ ~recreating)

(* resync, unless the stream reconnects anyway; one runs at a time. *)
Resync ==
    /\ gaps > 0
    /\ gaps' = gaps - 1
    /\ skipped' = IF NoReadAhead THEN skipped \cup missing ELSE skipped
    /\ IF state # "connected" \/ stopped \/ recreating
       THEN UNCHANGED <<resyncing, resyncAgain, ypc>>
       ELSE IF resyncing THEN resyncAgain' = TRUE /\ UNCHANGED <<resyncing, ypc>>
       ELSE resyncing' = TRUE /\ ypc' = "lock" /\ resyncAgain' = FALSE
    /\ UNCHANGED <<net, server, triggers, held, paths, markets, interest, stopped, recreating, redo,
                   life, rpc, rreply, upc, ureply, yreply, mine, calls, faults, behind, missing>>

Reread ==
    /\ ypc = "lock" /\ ScopeFree
    /\ ypc' = "ask"
    /\ yreply' = [id |-> watchID, rows |-> paths]
    /\ UNCHANGED <<net, server, triggers, gaps, held, paths, markets, interest, stopped, recreating,
                   redo, resyncing, resyncAgain, life, rpc, rreply, upc, ureply, mine, count>>

RereadServed ==
    /\ ypc = "ask" /\ up
    /\ Update(yreply.id, yreply.rows)
    /\ ypc' = "reply" /\ Snapshot("reread")
    /\ UNCHANGED <<net, orphans, used, triggers, gaps, held, paths, markets, interest, stopped,
                   recreating, redo, resyncing, resyncAgain, life, rpc, rreply, upc, ureply, yreply,
                   mine, calls, faults, behind>>

RereadFails ==
    /\ \/ ypc = "ask" /\ (~up \/ \A w \in watches : w.id # yreply.id) /\ UNCHANGED count
       \/ ypc \in {"ask", "reply"} /\ Fault /\ UNCHANGED <<calls, shown>>
    /\ ypc' = "failed" /\ yreply' = NoReply
    /\ UNCHANGED <<net, server, triggers, gaps, held, paths, markets, interest, stopped, recreating,
                   redo, resyncing, resyncAgain, life, rpc, rreply, upc, ureply, mine>>

RereadReply ==
    /\ ypc = "reply"
    /\ ReplaceRows(yreply, "reread")
    /\ ypc' = "markets" /\ yreply' = NoReply
    /\ UNCHANGED <<net, server, triggers, gaps, watchID, paths, markets, interest, stopped,
                   recreating, redo, resyncing, resyncAgain, state, rpc, rreply, upc, ureply,
                   mine, calls, faults>>

(* Mutant of RereadMarkets: a gap during a reread is taken to be covered. *)
MutRereadMarkets ==
    /\ ypc = "markets" /\ SyncMarkets
    /\ ypc' = "ended" /\ resyncAgain' = FALSE
    /\ UNCHANGED <<net, server, triggers, gaps, held, paths, stopped, recreating, redo, resyncing, life,
                   rpc, rreply, upc, ureply, yreply, mine, count>>

(* A gap that came meanwhile has the scope read once more. *)
RereadMarkets ==
    /\ ypc = "markets"
    /\ SyncMarkets
    /\ ypc' = IF resyncAgain /\ ~stopped THEN "lock" ELSE "ended"
    /\ resyncAgain' = FALSE
    /\ UNCHANGED <<net, server, triggers, gaps, held, paths, stopped, recreating, redo, resyncing, life,
                   rpc, rreply, upc, ureply, yreply, mine, count>>

(* A failed reread runs recreate, or leaves it to the one that runs. *)
ResyncRecreates ==
    /\ ypc = "failed"
    /\ StartRecreate
    /\ mine' = (~stopped /\ ~recreating)
    /\ ypc' = "join"
    /\ UNCHANGED <<net, server, triggers, gaps, held, paths, markets, interest, stopped, resyncing,
                   resyncAgain, life, rreply, upc, ureply, yreply, count>>

EndResync ==
    /\ ypc = "ended" \/ (ypc = "join" /\ (~mine \/ ~recreating))
    /\ resyncing' = FALSE /\ mine' = FALSE
    /\ ypc' = "idle"
    /\ UNCHANGED <<net, server, triggers, gaps, held, paths, markets, interest, stopped, recreating,
                   redo, resyncAgain, life, rpc, rreply, upc, ureply, yreply, count>>

(* Close: shutdown. *)
Shutdown ==
    /\ ~stopped
    /\ stopped' = TRUE
    /\ markets' = {} /\ interest' = {}
    /\ Destroy({watchID})
    /\ UNCHANGED <<net, orphans, used, triggers, gaps, held, paths, recreating, redo,
                   resyncing, resyncAgain, life, rpc, rreply, upc, ureply, ypc, yreply, mine, count>>

Next ==
    \/ Gap \/ Disconnected \/ NewConnection
    \/ OnFrame \/ OnMids \/ Render
    \/ Recreate \/ ReadScope \/ CreateWatch \/ CreateFails \/ CreateGivenUp \/ Backoff \/ Recreated
    \/ LookClosed \/ StoreId \/ RecreatedMarkets \/ RecreateStopped \/ EndRecreate
    \/ (\E scope \in Scopes : SetScope(scope)) \/ SetScopeServed \/ SetScopeFails \/ SetScopeReply
    \/ SetScopeMarkets
    \/ Resync \/ Reread \/ RereadServed \/ RereadFails \/ RereadReply \/ RereadMarkets
    \/ ResyncRecreates \/ EndResync \/ Shutdown

(* The connect loop gets through, and recreate takes a step. *)
Reconnects == ~up /\ NewConnection
RecreateStep ==
    ReadScope \/ CreateWatch \/ Backoff \/ Recreated \/ LookClosed \/ StoreId \/ RecreatedMarkets
    \/ RecreateStopped \/ EndRecreate

-----------------------------------------------------------------------------
AtRest ==
    /\ triggers = 0 /\ gaps = 0 /\ ~recreating /\ ~resyncing
    /\ rpc = "idle" /\ upc = "idle" /\ ypc = "idle"

IsStale == state # "connected" \/ resyncing \/ recreating

Watched == \E w \in watches : w.id = watchID /\ w.conn = conn

(* IsStale does not lie: on a connection that is up, rows that are not     *)
(* called stale are kept by a watch of that connection, or recreate is     *)
(* about to be called. It is what redo is for, when a connection is        *)
(* replaced while a watch is being made on it. An aggregation that failed  *)
(* to re-create its watch says nothing of it.                              *)
StaleOrWatched ==
    up /\ ~stopped /\ ~IsStale /\ triggers = 0 /\ (kind = "projection" \/ faults = 0) =>
        Watched

(* Nothing is left on the server, or in the mids feed, by a stream that is *)
(* closed and at rest, however Close met recreate, resync and setScope;    *)
(* before, there is one watch and the markets of the rows. What is left    *)
(* nevertheless are orphans: watches whose request was taken to have       *)
(* failed, and the one of an aggregation that was closed in the middle of  *)
(* recreateOnce.                                                           *)
NothingExtra ==
    AtRest =>
        /\ \A w \in watches : w.id \in orphans \/ (w.id = watchID /\ ~stopped)
        /\ interest = IF stopped \/ kind = "aggregation" THEN {} ELSE {rows}

(* The watch that feeds the stream has the scope the rows show, whatever   *)
(* recreate, resync and setScope did at the same time, and after any       *)
(* number of gaps and failures. (A setScope that returned an error may     *)
(* have changed the watch and not the rows, until they are read again.)    *)
FedAsShown ==
    \A w \in watches :
       w.id = watchID /\ ~stopped /\ upc = "idle" /\ ypc \notin {"ask", "reply"} =>
           w.scope = rows \/ behind

(* "so a later SetPaths always wins" (streams.go:1540), except when behind *)
(* says that it failed or that recreate, which does not take scopeMu, put  *)
(* rows of the scope before it in its place: at rest, the rows are those   *)
(* of the present scope.                                                   *)
LaterScopeWins == AtRest /\ ~stopped => rows = paths \/ behind

(* "object.valuation frames are critical: a lost one leaves a row wrong    *)
(* until that account changes again" (streams.go:1597): at rest on a       *)
(* connection, the rows were read after every frame that is known to be    *)
(* lost, except when a gap was passed over because resync was past its     *)
(* last look, or recreate past its read.                                   *)
GapsMadeGood == AtRest /\ up /\ ~stopped /\ "rows" \in missing => "rows" \in skipped
=============================================================================
